---- MODULE Spec2Model ----
(***************************************************************************)
(* Model of the opportunity-listing harvester of learnXAI:                 *)
(*   src/mcp-internship-scraper/scraper.py  (InternshipScraper)            *)
(*   src/mcp-internship-scraper/server.py   (call_tool)                    *)
(*   src/ai-backend/main.py                 (scrape_internships and        *)
(*                                           scrape_internships_stream)    *)
(* Python strings are TLA+ strings; str.lower, str.split, str.replace and  *)
(* the substring test are computed character by character.  Python floats  *)
(* are fixed-point integers in units of 1/ScoreScale; every score the      *)
(* model computes is an exact multiple of that unit.                       *)
(***************************************************************************)
EXTENDS Integers, Sequences, FiniteSets, TLC

VARIABLES
    \* _calculate_relevance_score: the arguments of the call and its result
    title, description, job_location, query, location, score, prev,
    \* scrape_indeed: the module flag, the argument, the position in the
    \* strategy chain, the strategies attempted and those that extracted a
    \* listing, the local list and the value returned
    SELENIUM_AVAILABLE, max_results, pc, attempts, yielded, internships, returned,
    \* the cross-source dedup pass: its input, its output, the output of a
    \* second pass over that output, and the number of passes run
    all_internships, unique_internships, unique_again, passes,
    \* the harvest endpoints of main.py: the request, whether scraper.py is
    \* found, the query optimizer's reply, what each scraper returned, and the
    \* synchronous and the streaming handler
    request, scraper_exists, processed, scraped, sync, stream,
    \* the browser driver: the _driver field of the request's InternshipScraper
    \* (0 for None), the number of webdriver.Chrome objects the process has
    \* created, the number of requests begun, and the driver each rendered
    \* fetch of the process got from _get_driver
    driver, created, served, fetched,
    \* the number of driver.get attempts of the call's rendered fetch
    loads,
    \* the instance's _current_query and _current_location, the domain of the
    \* search URL of the latest scrape_indeed call, and the job links of the
    \* listings it parsed
    current_query, current_location, indeed_domain, job_links,
    \* the number of scrape_indeed calls the instance has served
    calls

scorerVars == <<title, description, job_location, query, location, score, prev>>
chainVars == <<SELENIUM_AVAILABLE, max_results, pc, attempts, loads, yielded, internships, returned>>
dedupVars == <<all_internships, unique_internships, unique_again, passes>>
harvestVars == <<request, scraper_exists, processed, scraped, sync, stream>>
driverVars == <<driver, created, served, fetched>>
linkVars == <<current_query, current_location, indeed_domain, job_links, calls>>
vars == <<scorerVars, chainVars, dedupVars, harvestVars, driverVars, linkVars>>

-----------------------------------------------------------------------------
(* Python str operations *)

UpperCase == "ABCDEFGHIJKLMNOPQRSTUVWXYZ"
LowerCase == "abcdefghijklmnopqrstuvwxyz"

Char(s, i) == SubSeq(s, i, i)

LowerChar(c) ==
    IF \E i \in 1..Len(UpperCase) : Char(UpperCase, i) = c
    THEN Char(LowerCase, CHOOSE i \in 1..Len(UpperCase) : Char(UpperCase, i) = c)
    ELSE c

RECURSIVE Lower(_)
Lower(s) == IF Len(s) = 0 THEN "" ELSE LowerChar(Char(s, 1)) \o Lower(SubSeq(s, 2, Len(s)))

\* sub in s
Contains(s, sub) ==
    \E i \in 1..(Len(s) - Len(sub) + 1) : SubSeq(s, i, i + Len(sub) - 1) = sub

\* s.replace(c, '') for a one-character c
RECURSIVE RemoveChar(_, _)
RemoveChar(s, c) ==
    IF Len(s) = 0 THEN ""
    ELSE (IF Char(s, 1) = c THEN "" ELSE Char(s, 1)) \o RemoveChar(SubSeq(s, 2, Len(s)), c)

\* s.split(): the maximal runs of non-blank characters
RECURSIVE SplitFrom(_, _, _)
SplitFrom(s, i, word) ==
    IF i > Len(s) THEN (IF word = "" THEN <<>> ELSE <<word>>)
    ELSE IF Char(s, i) = " "
         THEN (IF word = "" THEN <<>> ELSE <<word>>) \o SplitFrom(s, i + 1, "")
         ELSE SplitFrom(s, i + 1, word \o Char(s, i))

Split(s) == SplitFrom(s, 1, "")

\* s.strip()
RECURSIVE LStrip(_)
LStrip(s) == IF Len(s) > 0 /\ Char(s, 1) = " " THEN LStrip(SubSeq(s, 2, Len(s))) ELSE s
RECURSIVE RStrip(_)
RStrip(s) == IF Len(s) > 0 /\ Char(s, Len(s)) = " " THEN RStrip(SubSeq(s, 1, Len(s) - 1)) ELSE s
Strip(s) == RStrip(LStrip(s))

\* any(k in s for k in keywords)
ContainsAny(s, keywords) == \E k \in keywords : Contains(s, k)

\* sum(1 for term in terms if term in s)
Matches(terms, s) == Cardinality({i \in DOMAIN terms : Contains(s, terms[i])})

-----------------------------------------------------------------------------
(* _calculate_relevance_score *)

ScoreScale == 12000
Pts(hundredths) == (hundredths * ScoreScale) \div 100

stop_words == {"intern", "internship", "the", "a", "an", "and", "or", "in", "at", "for", "of", "to"}

IsQueryTerm(term) == term \notin stop_words /\ Len(term) > 2
QueryTerms(q) == SelectSeq(Split(Lower(q)), IsQueryTerm)

IsInternship(title_lower, desc_lower) ==
    \/ Contains(title_lower, "intern")
    \/ Contains(title_lower, "internship")
    \/ Contains(desc_lower, "intern")
    \/ Contains(desc_lower, "internship")
    \/ Contains(title_lower, "camp")
    \/ Contains(title_lower, "trainee")

IsSoftwareQuery(query_lower) ==
    ContainsAny(query_lower, {"software", "developer", "engineer", "programming"})

location_keys ==
    {"remote", "bangalore", "mumbai", "delhi", "hyderabad", "chennai", "pune", "coimbatore", "india"}

location_variations(key) ==
    CASE key = "remote" -> {"remote", "work from home", "wfh", "anywhere", "work from anywhere", "work remotely"}
      [] key = "bangalore" -> {"bangalore", "bengaluru", "bangaluru", "banglore", "bangalore, india", "bengaluru, india", "banglore, india"}
      [] key = "mumbai" -> {"mumbai", "bombay", "mumbai, india", "bombay, india"}
      [] key = "delhi" -> {"delhi", "ncr", "new delhi", "gurgaon", "gurugram", "noida", "delhi, india", "new delhi, india"}
      [] key = "hyderabad" -> {"hyderabad", "hyderabad, india"}
      [] key = "chennai" -> {"chennai", "madras", "chennai, india", "madras, india"}
      [] key = "pune" -> {"pune", "pune, india"}
      [] key = "coimbatore" -> {"coimbatore", "coimbatore, india"}
      [] key = "india" -> {"india", "indian"}

us_indicators ==
    {"ca", "co", "ny", "tx", "il", "pa", "ut", "md", "al", "wa", "or", "az", "fl", "ma", "nc",
     "united states", "usa", "us", "united states of america"}

indian_cities ==
    {"bangalore", "banglore", "mumbai", "delhi", "hyderabad", "chennai", "pune", "coimbatore"}

\* lines 789-799: the +0.4 match through the variations table
LocationMatched(loc_lower, job_loc_lower_clean) ==
    \E key \in location_keys :
        /\ Contains(loc_lower, key)
        /\ ContainsAny(job_loc_lower_clean, location_variations(key))

\* the two factors of lines 815-818 exchanged
UsMismatchPenaltySwapped(s) == IF s > Pts(30) THEN (s * 5) \div 100 ELSE (s * 15) \div 100

\* lines 815-818: the penalty for a US job when an Indian city was asked for
UsMismatchPenalty(s) == IF s > Pts(30) THEN (s * 15) \div 100 ELSE (s * 5) \div 100

\* a penalty that subtracts instead of scaling
MismatchPenaltySubtractive(s, loc_lower, job_loc_lower_clean) == s - Pts(50)

\* lines 801-824: the multiplicative penalty when the location did not match
MismatchPenalty(s, loc_lower, job_loc_lower_clean) ==
    IF ContainsAny(loc_lower, indian_cities)
    THEN IF ContainsAny(job_loc_lower_clean, us_indicators)
         THEN UsMismatchPenalty(s)
         ELSE (s * 4) \div 10
    ELSE (s * 5) \div 10

\* the adjustment, were it to penalise US candidates when no location is asked for
LocationAdjustPenalisingUnasked(s, loc_lower, job_loc_lower) ==
    IF loc_lower = "" /\ ContainsAny(RemoveChar(job_loc_lower, ","), us_indicators)
    THEN (s * 5) \div 10
    ELSE s + Pts(10)

\* lines 775-827
LocationAdjust(s, loc_lower, job_loc_lower) ==
    IF loc_lower # ""
    THEN LET job_loc_lower_clean == RemoveChar(RemoveChar(job_loc_lower, ","), ".")
         IN  IF LocationMatched(loc_lower, job_loc_lower_clean)
             THEN s + Pts(40)
             ELSE MismatchPenalty(s, loc_lower, job_loc_lower_clean)
    ELSE s + Pts(10)

\* lines 724-773: the additive part, before the location adjustment
TextScore(title_lower, desc_lower, query_lower) ==
    LET query_terms == QueryTerms(query_lower)
        n == Len(query_terms)
        base == IF IsInternship(title_lower, desc_lower) THEN Pts(15) ELSE 0
        title_part == IF n > 0 THEN (Matches(query_terms, title_lower) * Pts(50)) \div n ELSE 0
        role_bonus ==
            IF IsSoftwareQuery(query_lower)
            THEN (IF ContainsAny(title_lower, {"engineer", "developer", "programmer", "coder"})
                  THEN Pts(20) ELSE 0)
                 + (IF ContainsAny(title_lower, {"test", "qa", "quality", "automation", "ai", "machine learning", "data"})
                    THEN Pts(15) ELSE 0)
            ELSE 0
        title_desc == title_lower \o " " \o desc_lower
        desc_part == IF n > 0 THEN (Matches(query_terms, title_desc) * Pts(20)) \div n ELSE 0
    IN  base + title_part + role_bonus + desc_part

calculate_relevance_score(t, d, jl, q, l) ==
    LocationAdjust(TextScore(Lower(t), Lower(d), Lower(q)), Lower(l), Lower(jl))

-----------------------------------------------------------------------------
(* _is_relevant *)

\* lines 853-861: a generic title with a description that mentions the query
GenericTitleLenient(title_lower, d, desc_lower, query_lower) ==
    /\ (Strip(title_lower) \in {"intern", "internship", "job", "position"} \/ Len(Strip(title_lower)) < 5)
    /\ Len(d) > 20
    /\ \/ \E i \in DOMAIN Split(query_lower) :
              Len(Split(query_lower)[i]) > 3 /\ Contains(desc_lower, Split(query_lower)[i])
       \/ ContainsAny(desc_lower, {"software", "developer", "engineer", "programming", "code", "technical", "tech"})

\* lines 863-920: the threshold the score is compared with
RelevanceThreshold(title_lower, query_lower, loc_lower, job_loc_lower, s) ==
    LET query_terms == QueryTerms(query_lower)
        is_tech ==
            /\ IsSoftwareQuery(query_lower)
            /\ ContainsAny(title_lower, {"engineer", "developer", "programmer", "test", "qa", "automation", "ai", "machine learning", "data"})
        title_has_query_terms ==
            \/ Len(query_terms) = 0
            \/ \E i \in DOMAIN query_terms : Contains(title_lower, query_terms[i])
            \/ is_tech
        is_general_internship == ContainsAny(title_lower, {"camp", "program", "winter", "summer"})
        location_matches ==
            IF ContainsAny(loc_lower, {"bangalore", "bengaluru", "banglore"})
            THEN ContainsAny(job_loc_lower, {"bangalore", "bengaluru", "banglore", "india", "karnataka"})
            ELSE TRUE
    IN  IF is_general_internship
        THEN (IF loc_lower # "" THEN (IF location_matches THEN Pts(10) ELSE Pts(15)) ELSE Pts(10))
        ELSE IF loc_lower # ""
             THEN (IF is_tech THEN Pts(15)
                   ELSE IF title_has_query_terms \/ s > Pts(20) THEN Pts(20) ELSE Pts(25))
             ELSE (IF is_tech THEN Pts(10) ELSE Pts(15))

is_relevant(t, d, jl, q, l) ==
    LET s == calculate_relevance_score(t, d, jl, q, l)
    IN  /\ IsInternship(Lower(t), Lower(d))
        /\ IF GenericTitleLenient(Lower(t), d, Lower(d), Lower(q))
           THEN s >= Pts(10)
           ELSE s >= RelevanceThreshold(Lower(t), Lower(q), Lower(l), Lower(jl), s)

-----------------------------------------------------------------------------
(* Sequences of listings *)

Take(seq, n) == SubSeq(seq, 1, IF n < Len(seq) THEN n ELSE Len(seq))

\* list.sort(key=score, reverse=True): stable, by insertion
RECURSIVE InsertByScore(_, _)
InsertByScore(sorted, x) ==
    IF sorted = <<>> THEN <<x>>
    ELSE IF Head(sorted).score >= x.score
         THEN <<Head(sorted)>> \o InsertByScore(Tail(sorted), x)
         ELSE <<x>> \o sorted

RECURSIVE SortByScoreDesc(_)
SortByScoreDesc(seq) ==
    IF seq = <<>> THEN <<>>
    ELSE InsertByScore(SortByScoreDesc(SubSeq(seq, 1, Len(seq) - 1)), seq[Len(seq)])

MaxScore(scored) == CHOOSE m \in {scored[i].score : i \in DOMAIN scored} :
                        \A i \in DOMAIN scored : scored[i].score <= m

Jobs(scored) == [i \in DOMAIN scored |-> scored[i].job]

\* s.split(sep) for a separator of several characters
RECURSIVE SplitOnFrom(_, _, _, _)
SplitOnFrom(s, sep, i, part) ==
    IF i > Len(s) THEN <<part>>
    ELSE IF i + Len(sep) - 1 <= Len(s) /\ SubSeq(s, i, i + Len(sep) - 1) = sep
         THEN <<part>> \o SplitOnFrom(s, sep, i + Len(sep), "")
         ELSE SplitOnFrom(s, sep, i + 1, part \o Char(s, i))

SplitOn(s, sep) == SplitOnFrom(s, sep, 1, "")

\* an element that may be absent is a sequence of at most one text
Present(elem) == elem # <<>>
Text(elem) == Strip(elem[1])

-----------------------------------------------------------------------------
(* _parse_indeed_html on the job cards of a page *)

\* ' '.join(pieces)
RECURSIVE JoinPieces(_)
JoinPieces(pieces) ==
    IF pieces = <<>> THEN ""
    ELSE IF Len(pieces) = 1 THEN pieces[1]
    ELSE pieces[1] \o " " \o JoinPieces(Tail(pieces))

NonEmpty(piece) == piece # ""

\* card.get_text(separator=' ', strip=True): the non-empty texts of the card,
\* in document order, joined by single spaces
FlattenedText(card) ==
    JoinPieces(SelectSeq(<<Strip(card.title),
                           IF Present(card.company) THEN Text(card.company) ELSE "",
                           IF Present(card.location) THEN Text(card.location) ELSE "",
                           IF Present(card.summary) THEN Text(card.summary) ELSE "">>,
                         NonEmpty))

\* the text of an element nested in the title element, if the card has one
NestedText(card, field) ==
    IF field \in DOMAIN card /\ Present(card[field]) THEN Text(card[field]) ELSE ""

\* line 615
title_placeholders == {"intern", "internship", "job"}

\* lines 620-621 and 627-628: a nested text replaces the title if it is longer
LongerOf(nested_title, t) ==
    IF nested_title # "" /\ Len(nested_title) > Len(t) THEN nested_title ELSE t

\* lines 633-637
FirstLineOr(first_line, t) ==
    IF first_line # "" /\ Len(first_line) > Len(t) THEN Take(first_line, 100) ELSE t

\* lines 629-637: the first line of the card's text, if the title is still short
FirstLineIfShort(card, t) ==
    IF t = "" \/ Len(t) < 5 THEN FirstLineOr(SplitOn(FlattenedText(card), ".")[1], t) ELSE t

\* lines 615-637 on the text of the title element
Escalate(card, candidate) ==
    IF candidate = "" \/ Len(candidate) < 5 \/ Lower(candidate) \in title_placeholders
    THEN FirstLineIfShort(card,
             LongerOf(NestedText(card, "nested_span"),
                      LongerOf(NestedText(card, "nested_link"), candidate)))
    ELSE candidate

\* lines 610-637: the title, escalated to a nested link, a nested span and
\* the first line of the card's text
CardTitle(card) == Escalate(card, Strip(card.title))

\* lines 642-643
CardCompany(card) == IF Present(card.company) THEN Text(card.company) ELSE "Company Not Specified"
CardLocation(card, l) ==
    IF Present(card.location) THEN Text(card.location)
    ELSE IF l # "" THEN l ELSE "Location Not Specified"

\* lines 645-665: the summary, salvaged from the card's text or templated
CardSummary(card, q, l) ==
    LET found == IF Present(card.summary) THEN Text(card.summary) ELSE ""
        all_card_text ==
            card.title \o " " \o (IF Present(card.company) THEN Text(card.company) ELSE "")
                 \o " " \o (IF Present(card.location) THEN Text(card.location) ELSE "")
                 \o " " \o found
        known == {Split(Lower(CardTitle(card)))[i] : i \in DOMAIN Split(Lower(CardTitle(card)))}
                 \cup {Split(Lower(CardCompany(card)))[i] : i \in DOMAIN Split(Lower(CardCompany(card)))}
                 \cup {Split(Lower(CardLocation(card, l)))[i] : i \in DOMAIN Split(Lower(CardLocation(card, l)))}
        IsDescWord(w) == Lower(w) \notin known
        desc_words == Take(SelectSeq(Split(all_card_text), IsDescWord), 50)
        JoinWords[k \in 0..Len(desc_words)] ==
            IF k = 0 THEN ""
            ELSE IF k = 1 THEN desc_words[1] ELSE JoinWords[k - 1] \o " " \o desc_words[k]
        salvaged ==
            IF Len(found) < 20 /\ desc_words # <<>> THEN JoinWords[Len(desc_words)] ELSE found
    IN  IF Len(salvaged) < 10
        THEN "Internship opportunity for " \o q \o " position"
        ELSE salvaged

\* lines 610-697: the listing of one card
CardListing(card, q, l) ==
    [title |-> CardTitle(card), company |-> CardCompany(card), location |-> CardLocation(card, l),
     description |-> CardSummary(card, q, l), source |-> "Indeed"]

\* lines 639-640 and 688: the card has a usable title and passes _is_relevant
CardKept(card, q, l) ==
    /\ Len(CardTitle(card)) >= 3
    /\ is_relevant(CardTitle(card), CardSummary(card, q, l), CardLocation(card, l), q, l)

\* lines 705-714: the first listing of each lower-cased title
RECURSIVE UniqueTitles(_, _)
UniqueTitles(jobs, seen_titles) ==
    IF jobs = <<>> THEN <<>>
    ELSE IF Lower(Head(jobs).title) \in seen_titles
         THEN UniqueTitles(Tail(jobs), seen_titles)
         ELSE <<Head(jobs)>> \o UniqueTitles(Tail(jobs), seen_titles \cup {Lower(Head(jobs).title)})

parse_indeed_html(cards, q, l, limit) ==
    LET Kept(card) == CardKept(card, q, l)
        kept == SelectSeq(Take(cards, limit), Kept)
    IN  UniqueTitles([i \in DOMAIN kept |-> CardListing(kept[i], q, l)], {})

-----------------------------------------------------------------------------
(* scrape_indeed: the three strategies *)

\* lines 447-457
Scored(jobs, q, l) ==
    [i \in DOMAIN jobs |->
        [score |-> calculate_relevance_score(jobs[i].title, jobs[i].description, jobs[i].location, q, l),
         job |-> jobs[i]]]

\* lines 459-469
MinScore(scored_internships, l) ==
    IF scored_internships # <<>>
    THEN IF Len(scored_internships) <= 5 THEN Pts(15)
         ELSE IF MaxScore(scored_internships) > Pts(40) THEN Pts(20) ELSE Pts(25)
    ELSE IF l # "" THEN Pts(20) ELSE Pts(15)

\* lines 471-480 without the lenient retry of lines 474-476
FilterAndRankStrict(scored_internships, l, limit) ==
    LET min_score == MinScore(scored_internships, l)
        Passes(x) == x.score >= min_score
    IN  Jobs(Take(SortByScoreDesc(SelectSeq(scored_internships, Passes)), limit))

\* lines 471-480
FilterAndRank(scored_internships, l, limit) ==
    LET min_score == MinScore(scored_internships, l)
        Passes(x) == x.score >= min_score
        filtered_scored == SelectSeq(scored_internships, Passes)
        lenient ==
            IF filtered_scored = <<>> /\ scored_internships # <<>>
            THEN Take(SortByScoreDesc(scored_internships), limit)
            ELSE filtered_scored
    IN  Jobs(Take(SortByScoreDesc(lenient), limit))

\* lines 487-489: the log of the locations found iterates the list of listings
\* as if it still held (score, job) pairs; unpacking a listing raises ValueError
LocationLogRaises(l, jobs) == l # "" /\ jobs # <<>>

\* lines 459-480 on what the page parsed to
RankParsed(parsed, q, l, limit) ==
    IF parsed # <<>> THEN FilterAndRank(Scored(parsed, q, l), l, limit) ELSE <<>>

\* lines 482-493: the listings are returned unless the location log raises
StaticResult(ranked, l) ==
    [internships |-> ranked,
     yielded |-> ranked # <<>>,
     returns |-> ranked # <<>> /\ ~LocationLogRaises(l, ranked)]

\* the static strategy, were it to parse a challenge page like any other page
StaticStrategyParsingChallenge(outcome, q, l, limit) ==
    IF outcome.kind \in {"page", "captcha"}
    THEN StaticResult(RankParsed(parse_indeed_html(outcome.cards, q, l, limit * 2), q, l, limit), l)
    ELSE [internships |-> <<>>, yielded |-> FALSE, returns |-> FALSE]

\* lines 410-502: what the static strategy leaves behind.  returns: the call
\* returned the listings; yielded: the strategy extracted at least one listing
StaticStrategy(outcome, q, l, limit) ==
    IF outcome.kind = "page"
    THEN StaticResult(RankParsed(parse_indeed_html(outcome.cards, q, l, limit * 2), q, l, limit), l)
    ELSE [internships |-> <<>>, yielded |-> FALSE, returns |-> FALSE]

\* lines 517-521: whatever the page parsed to is returned as it is
SeleniumResult(parsed) ==
    [internships |-> parsed, yielded |-> parsed # <<>>, returns |-> parsed # <<>>]

\* lines 504-531, entered with the listings the static strategy left
SeleniumStrategy(outcome, q, l, limit, left) ==
    IF outcome.kind = "page"
    THEN SeleniumResult(parse_indeed_html(outcome.cards, q, l, limit * 2))
    ELSE [internships |-> left, yielded |-> FALSE, returns |-> FALSE]

\* lines 313-332 of scrape_indeed_rss: the listing of one feed item
RssListing(item, q, l) ==
    LET title_parts == SplitOn(item.title, " - ")
    IN  [title |-> Strip(title_parts[1]),
         company |-> IF Len(title_parts) > 1 THEN Strip(title_parts[2]) ELSE "Company Not Specified",
         location |-> IF Len(title_parts) > 2 THEN Strip(title_parts[3])
                      ELSE IF l # "" THEN l ELSE "Location Not Specified",
         description |-> IF Present(item.description) /\ item.description[1] # ""
                         THEN item.description[1]
                         ELSE "Internship opportunity for " \o q,
         source |-> "Indeed (RSS)"]

\* lines 274-360
scrape_indeed_rss(outcome, q, l, limit) ==
    IF outcome.kind = "feed"
    THEN LET items == Take(outcome.items, limit)
             Kept(item) ==
                 /\ item.title # ""
                 /\ is_relevant(RssListing(item, q, l).title, RssListing(item, q, l).description,
                                RssListing(item, q, l).location, q, l)
             kept == SelectSeq(items, Kept)
             found == [i \in DOMAIN kept |-> RssListing(kept[i], q, l)]
         IN  Jobs(Take(SortByScoreDesc(Scored(found, q, l)), limit))
    ELSE <<>>

\* lines 536-542: the feed's listings if any, else what was left
RssResult(rss_results, left) ==
    [internships |-> IF rss_results # <<>> THEN rss_results ELSE left,
     yielded |-> rss_results # <<>>,
     returns |-> TRUE]

\* lines 533-542, entered with the listings the earlier strategies left
RssStrategy(outcome, q, l, limit, left) ==
    RssResult(scrape_indeed_rss(outcome, q, l, limit), left)

-----------------------------------------------------------------------------
(* The other scrapers *)

\* scrape_linkedin returns the empty list
scrape_linkedin(q, l, limit) == <<>>

\* lines 968-997 of scrape_glassdoor and 1037-1067 of scrape_internships_com
BoardListing(card, l, source) ==
    LET company == IF Present(card.company) THEN Text(card.company) ELSE "Company Not Specified"
    IN  [title |-> Strip(card.title), company |-> company,
         location |-> IF Present(card.location) THEN Text(card.location)
                      ELSE IF l # "" THEN l ELSE "Location Not Specified",
         description |-> "Internship opportunity at " \o company,
         source |-> source]

BoardListings(outcome, l, limit, source) ==
    IF outcome.kind = "page"
    THEN LET HasTitle(card) == Strip(card.title) # ""
             kept == SelectSeq(Take(outcome.cards, limit), HasTitle)
         IN  [i \in DOMAIN kept |-> BoardListing(kept[i], l, source)]
    ELSE <<>>

scrape_glassdoor(outcome, q, l, limit) == BoardListings(outcome, l, limit, "Glassdoor")

scrape_internships_com(outcome, q, l, limit) == BoardListings(outcome, l, limit, "Internships.com")

\* lines 1131-1203 of scrape_skill_india
SkillIndiaListing(card, l) ==
    [title |-> Strip(card.title),
     company |-> IF Present(card.company) THEN Text(card.company) ELSE "Skill India Digital",
     location |-> IF Present(card.location) THEN Text(card.location)
                  ELSE IF l # "" THEN l ELSE "India",
     description |-> IF Present(card.summary) /\ Text(card.summary) # ""
                     THEN Text(card.summary)
                     ELSE "Internship opportunity: " \o Strip(card.title),
     source |-> "Skill India Digital"]

\* page_source stays None unless SELENIUM_AVAILABLE (lines 1088-1113)
scrape_skill_india(selenium_available, outcome, q, l, limit) ==
    IF selenium_available /\ outcome.kind = "page"
    THEN LET HasTitle(card) == Len(Strip(card.title)) >= 5
             kept == SelectSeq(Take(outcome.cards, limit), HasTitle)
         IN  [i \in DOMAIN kept |-> SkillIndiaListing(kept[i], l)]
    ELSE <<>>

\* scrape_indeed as one call: the strategies in turn
\* lines 533-542: the feed as the last resort, else what the earlier strategies left
IndeedAfterSelenium(s2, env, q, l, limit) ==
    IF s2.returns THEN s2.internships
    ELSE RssStrategy(env.rss, q, l, limit, s2.internships).internships

\* lines 504-531: Selenium when the module has it
IndeedAfterStatic(s1, selenium_available, env, q, l, limit) ==
    IF s1.returns THEN s1.internships
    ELSE IndeedAfterSelenium(
             IF selenium_available
             THEN SeleniumStrategy(env.selenium, q, l, limit, s1.internships)
             ELSE [internships |-> s1.internships, yielded |-> FALSE, returns |-> FALSE],
             env, q, l, limit)

\* scrape_indeed as one call: the strategies in turn
scrape_indeed(selenium_available, env, q, l, limit) ==
    IndeedAfterStatic(StaticStrategy(env.static, q, l, limit), selenium_available, env, q, l, limit)

-----------------------------------------------------------------------------
(* The cross-source dedup pass *)

DedupKey(internship) == <<Lower(internship.title), Lower(internship.company)>>

RECURSIVE DedupFrom(_, _)
DedupFrom(list, seen) ==
    IF list = <<>> THEN <<>>
    ELSE IF DedupKey(Head(list)) \in seen
         THEN DedupFrom(Tail(list), seen)
         ELSE <<Head(list)>> \o DedupFrom(Tail(list), seen \cup {DedupKey(Head(list))})

\* the pass with the list shrunk while it is iterated: the element after a
\* removed duplicate is never looked at
RECURSIVE DedupRemovingInPlace(_, _)
DedupRemovingInPlace(list, seen) ==
    IF list = <<>> THEN <<>>
    ELSE IF DedupKey(Head(list)) \in seen
         THEN (IF Len(list) > 1 THEN <<list[2]>> ELSE <<>>)
                  \o DedupRemovingInPlace(SubSeq(list, 3, Len(list)), seen)
         ELSE <<Head(list)>> \o DedupRemovingInPlace(Tail(list), seen \cup {DedupKey(Head(list))})

remove_duplicates_in_place(list) == DedupRemovingInPlace(list, {})

\* the pass with a dict keyed by the pair: a later listing overwrites the
\* earlier one under its key
remove_duplicates_last_wins(list) ==
    [i \in DOMAIN DedupFrom(list, {}) |->
        list[CHOOSE k \in DOMAIN list :
                /\ DedupKey(list[k]) = DedupKey(DedupFrom(list, {})[i])
                /\ \A m \in DOMAIN list :
                       DedupKey(list[m]) = DedupKey(list[k]) => m <= k]]

\* scraper.py 1238-1247, server.py 394-401, main.py 694-717 and 842-864
remove_duplicates(list) == DedupFrom(list, {})

\* main.py 702-716: the listing as the front end gets it
Formatted(internship) ==
    [title |-> internship.title, company |-> internship.company,
     description |-> internship.description, location |-> internship.location,
     type |-> "Internship",
     applicationTips |-> "Apply via " \o internship.source \o " or company website",
     matchScore |-> IF internship.source # "Sample" THEN 80 ELSE 70,
     source |-> internship.source]

FormatAll(list) == [i \in DOMAIN list |-> Formatted(list[i])]

-----------------------------------------------------------------------------
(* main.py: the source list and the per-source maximum *)

DefaultSources == <<"indeed", "linkedin", "glassdoor", "internships.com", "skill_india">>

InSeq(x, seq) == \E i \in DOMAIN seq : seq[i] = x

\* lines 625-631 and 798-803
EffectiveSources(requested) ==
    IF requested = <<>> THEN DefaultSources
    ELSE IF ~InSeq("skill_india", requested) /\ ~InSeq("skillindiadigital", requested)
         THEN requested \o <<"skill_india">>
         ELSE requested

\* lines 634 and 805
MaxPerSource(requested_max, sources) ==
    LET n == IF Len(sources) > 1 THEN Len(sources) ELSE 1
        share == requested_max \div n
    IN  IF sources # <<>> THEN (IF share > 10 THEN share ELSE 10) ELSE requested_max

\* lines 641-673: the scrapers of the synchronous handler, in its fixed order,
\* each with the test that selects it
SyncOrder == <<"indeed", "linkedin", "glassdoor", "internships.com", "skill_india">>

SyncSelects(scraper, sources) ==
    IF scraper = "skill_india"
    THEN InSeq("skill_india", sources) \/ InSeq("skillindiadigital", sources)
    ELSE InSeq(scraper, sources)

\* lines 819-830: the scraper the streaming handler calls for an identifier
StreamScraper(source) ==
    IF source \in {"indeed", "linkedin", "glassdoor", "internships.com"} THEN source
    ELSE IF source \in {"skill_india", "skillindiadigital"} THEN "skill_india"
    ELSE "none"

-----------------------------------------------------------------------------
(* The inputs the model draws from *)

\* the most job cards or feed items a fetched document holds
MaxCards == 2

Titles == {"Software Engineer Intern", "QA Intern", "Marketing Intern", "Intern"}
Descriptions == {"", "Work with the software engineer team"}
Queries == {"software engineer", "marketing", "data science analyst"}
RequestedLocations == {"", "bangalore", "new york"}
JobLocations ==
    {"Bengaluru, Karnataka", "Pune, Maharashtra", "Hyderabad, Telangana", "Austin, TX", "New York, NY"}

NotScored == 0 - 1
NoCall == [op |-> "none"]

-----------------------------------------------------------------------------
(* Idle values of the components a specification does not exercise *)

ScorerIdle ==
    /\ title = "" /\ description = "" /\ job_location = ""
    /\ score = NotScored /\ prev = NoCall

ArgsIdle == query = "" /\ location = ""

ChainIdle ==
    /\ SELENIUM_AVAILABLE = FALSE /\ max_results = 0 /\ pc = "idle"
    /\ attempts = <<>> /\ loads = 0 /\ yielded = {} /\ internships = <<>> /\ returned = <<>>

DedupIdle ==
    /\ all_internships = <<>> /\ unique_internships = <<>> /\ unique_again = <<>>
    /\ passes = 0

LinkIdle ==
    /\ current_query = "" /\ current_location = "" /\ indeed_domain = "" /\ job_links = <<>>
    /\ calls = 0

DriverIdle == driver = 0 /\ created = 0 /\ served = 0 /\ fetched = <<>>

HarvestIdle ==
    /\ request = [query |-> "", location |-> "", max_results |-> 0, sources |-> <<>>]
    /\ scraper_exists = TRUE /\ processed = <<>> /\ scraped = <<>>
    /\ sync = [pc |-> "idle"] /\ stream = [pc |-> "idle"]

-----------------------------------------------------------------------------
(* Calls of _calculate_relevance_score on one candidate *)

InitScore ==
    /\ title \in Titles
    /\ description \in Descriptions
    /\ job_location \in JobLocations
    /\ query \in Queries
    /\ location \in RequestedLocations
    /\ score = NotScored
    /\ prev = NoCall
    /\ ChainIdle /\ DedupIdle /\ DriverIdle /\ LinkIdle /\ HarvestIdle

\* the scorer is called on the candidate
Calculate ==
    /\ score = NotScored
    /\ score' = calculate_relevance_score(title, description, job_location, query, location)
    /\ UNCHANGED <<title, description, job_location, query, location, prev>>
    /\ UNCHANGED <<chainVars, dedupVars, driverVars, linkVars, harvestVars>>

\* the same candidate with one more query term in its title is scored
AddTitleTerm ==
    /\ score # NotScored
    /\ \E i \in DOMAIN QueryTerms(query) :
          /\ ~Contains(Lower(title), QueryTerms(query)[i])
          /\ title' = title \o " " \o QueryTerms(query)[i]
          /\ score' = calculate_relevance_score(title', description, job_location, query, location)
    /\ prev' = [op |-> "title", title |-> title, job_location |-> job_location, score |-> score]
    /\ UNCHANGED <<description, job_location, query, location>>
    /\ UNCHANGED <<chainVars, dedupVars, driverVars, linkVars, harvestVars>>

\* the same candidate at another place is scored, once
ChangeJobLocation ==
    /\ score # NotScored
    /\ prev = NoCall
    /\ \E jl \in JobLocations \ {job_location} :
          /\ job_location' = jl
          /\ score' = calculate_relevance_score(title, description, jl, query, location)
    /\ prev' = [op |-> "location", title |-> title, job_location |-> job_location, score |-> score]
    /\ UNCHANGED <<title, description, query, location>>
    /\ UNCHANGED <<chainVars, dedupVars, driverVars, linkVars, harvestVars>>

NextScore == Calculate \/ AddTitleTerm \/ ChangeJobLocation

SpecScore == InitScore /\ [][NextScore]_vars

\* where each candidate location and each requested location lies
Country(place) ==
    IF place \in {"Austin, TX", "New York, NY", "new york"} THEN "US" ELSE "IN"

City(place) ==
    IF place \in {"Bengaluru, Karnataka", "bangalore"} THEN "Bengaluru"
    ELSE IF place \in {"New York, NY", "new york"} THEN "New York"
    ELSE place

\* 0: another country; 1: the requested country, another city; 2: the requested city
LocationOutcome(place, requested) ==
    IF Country(place) # Country(requested) THEN 0
    ELSE IF City(place) # City(requested) THEN 1
    ELSE 2

\* C9: with title, description and query fixed and a requested location given,
\* the score is strictly ordered by location outcome: another country scores
\* strictly below the same country in another city, which scores strictly
\* below the requested city.
C9_LocationStrictlyOrdered ==
    (prev.op = "location" /\ location # "") =>
        LET before == LocationOutcome(prev.job_location, location)
            after == LocationOutcome(job_location, location)
        IN  /\ before < after => prev.score < score
            /\ after < before => score < prev.score

\* C10: with description, candidate location, query and requested location
\* fixed, adding a matching query term to the title never decreases the score.
C10_TitleCoverageMonotone == prev.op = "title" => score >= prev.score

\* a query term was added to the title of a US candidate while an Indian city
\* was requested, and the penalised score rose
C10_Witness ==
    /\ prev.op = "title"
    /\ location = "bangalore" /\ job_location = "Austin, TX"
    /\ score > prev.score

\* C27: when no location is requested the score gets a flat +0.1 and no
\* penalty, so two candidates that differ only in job location score the same.
C27_NoLocationNoPenalty ==
    (prev.op = "location" /\ location = "") =>
        /\ score = prev.score
        /\ score = TextScore(Lower(title), Lower(description), Lower(query)) + Pts(10)

\* with no location requested, the candidate was scored in India and then in
\* the US
C27_Witness ==
    /\ prev.op = "location" /\ location = ""
    /\ prev.job_location = "Bengaluru, Karnataka" /\ job_location = "Austin, TX"
    /\ score = prev.score

-----------------------------------------------------------------------------
(* One call of scrape_indeed, strategy by strategy *)

AcmeCard ==
    [title |-> "Software Engineer Intern", company |-> <<"Acme">>,
     location |-> <<"Bengaluru, Karnataka">>, summary |-> <<>>]

QaCard == [title |-> "QA Intern", company |-> <<>>, location |-> <<>>, summary |-> <<"Paid">>]

SalesCard ==
    [title |-> "Sales Manager", company |-> <<"Initech">>, location |-> <<"Austin, TX">>,
     summary |-> <<"Manage regional sales accounts">>]

Cards == {AcmeCard, QaCard, SalesCard}

FeedItems ==
    {[title |-> "Software Engineer Intern - Acme - Bengaluru, Karnataka", description |-> <<>>],
     [title |-> "Sales Manager - Initech", description |-> <<"Manage regional sales accounts">>]}

SeqsUpTo(S, n) == UNION {[1..k -> S] : k \in 0..n}

\* what the GET of the search page can produce (lines 427-501)
StaticOutcomes ==
    {[kind |-> "exception"], [kind |-> "status403"], [kind |-> "captcha"], [kind |-> "nojobs"]}
        \cup {[kind |-> "page", cards |-> c] : c \in SeqsUpTo(Cards, MaxCards)}

\* what _scrape_with_selenium can produce: None or a page source
SeleniumOutcomes ==
    {[kind |-> "none"]} \cup {[kind |-> "page", cards |-> c] : c \in SeqsUpTo(Cards, MaxCards)}

\* what the GET of the feed can produce
RssOutcomes ==
    {[kind |-> "exception"], [kind |-> "notxml"]}
        \cup {[kind |-> "feed", items |-> c] : c \in SeqsUpTo(FeedItems, MaxCards)}

InitChain ==
    /\ SELENIUM_AVAILABLE \in BOOLEAN
    /\ query \in {"software engineer"}
    /\ location \in RequestedLocations
    /\ max_results \in 1..2
    /\ pc = "static"
    /\ attempts = <<>> /\ loads = 0 /\ yielded = {} /\ internships = <<>> /\ returned = <<>>
    /\ ScorerIdle /\ DedupIdle /\ DriverIdle /\ LinkIdle /\ HarvestIdle

Advance(strategy, r, next) ==
    /\ attempts' = Append(attempts, strategy)
    /\ yielded' = IF r.yielded THEN yielded \cup {strategy} ELSE yielded
    /\ internships' = r.internships
    /\ pc' = IF r.returns THEN "done" ELSE next
    /\ returned' = IF r.returns THEN r.internships ELSE returned
    /\ UNCHANGED <<SELENIUM_AVAILABLE, max_results, loads, query, location>>
    /\ UNCHANGED <<title, description, job_location, score, prev, dedupVars, driverVars, linkVars, harvestVars>>

\* Strategy 1: BeautifulSoup + Requests
StaticFetch ==
    /\ pc = "static"
    /\ \E outcome \in StaticOutcomes :
          Advance("static", StaticStrategy(outcome, query, location, max_results), "selenium")

\* line 156 of _scrape_with_selenium
max_retries == 2

\* the page-load loop, were it to allow one attempt more
LoadAttemptAllowedOnceMore(n) == n < max_retries + 1

\* line 157: for attempt in range(max_retries)
LoadAttemptAllowed(n) == n < max_retries

\* lines 145-147: _get_driver gave no driver, nothing is loaded
DriverUnavailable ==
    /\ pc = "selenium"
    /\ SELENIUM_AVAILABLE
    /\ loads = 0
    /\ pc' = "loaded"
    /\ UNCHANGED <<SELENIUM_AVAILABLE, max_results, attempts, loads, yielded, internships, returned>>
    /\ UNCHANGED <<scorerVars, dedupVars, driverVars, linkVars, harvestVars>>

\* lines 157-176: one driver.get of the page-load loop.  It succeeds, or it
\* raises and is tried again, or it raises on the last attempt and the loop ends
PageLoad ==
    /\ pc = "selenium"
    /\ SELENIUM_AVAILABLE
    /\ LoadAttemptAllowed(loads)
    /\ loads' = loads + 1
    /\ \/ pc' = "loaded"
       \/ LoadAttemptAllowed(loads + 1) /\ pc' = "selenium"
    /\ UNCHANGED <<SELENIUM_AVAILABLE, max_results, attempts, yielded, internships, returned>>
    /\ UNCHANGED <<scorerVars, dedupVars, driverVars, linkVars, harvestVars>>

\* Strategy 2: Selenium, on what _scrape_with_selenium returned
SeleniumFetch ==
    /\ pc = "loaded"
    /\ SELENIUM_AVAILABLE
    /\ \E outcome \in (IF loads = 0 THEN {[kind |-> "none"]} ELSE SeleniumOutcomes) :
          Advance("selenium", SeleniumStrategy(outcome, query, location, max_results, internships), "rss")

\* line 530: Selenium not available
SeleniumSkip ==
    /\ pc = "selenium"
    /\ ~SELENIUM_AVAILABLE
    /\ pc' = "rss"
    /\ UNCHANGED <<SELENIUM_AVAILABLE, max_results, attempts, loads, yielded, internships, returned>>
    /\ UNCHANGED <<scorerVars, dedupVars, driverVars, linkVars, harvestVars>>

\* Final fallback: the RSS feed, then return internships
RssFetch ==
    /\ pc = "rss"
    /\ \E outcome \in RssOutcomes :
          Advance("rss", RssStrategy(outcome, query, location, max_results, internships), "done")

NextChain ==
    StaticFetch \/ DriverUnavailable \/ PageLoad \/ SeleniumFetch \/ SeleniumSkip \/ RssFetch

Spec == InitChain /\ [][NextChain]_vars

\* every fetch of the call has a timeout (25 s for the static GET, the page
\* load and wait timeouts of the driver, 15 s for the feed), so a call that can
\* take a step takes one
SpecTimeouts == Spec /\ WF_vars(NextChain)

StrategyRank(strategy) ==
    IF strategy = "static" THEN 1 ELSE IF strategy = "selenium" THEN 2 ELSE 3

\* C1: the static fetch is attempted before the Selenium fetch, which is
\* attempted before the feed fetch, and once a strategy has extracted at least
\* one listing no later strategy is attempted.
C1_StrategyOrder ==
    \A i \in DOMAIN attempts :
        \A j \in DOMAIN attempts :
            i < j => /\ StrategyRank(attempts[i]) < StrategyRank(attempts[j])
                     /\ attempts[i] \notin yielded

\* the number of times a strategy was entered
Entered(strategy) == Cardinality({i \in DOMAIN attempts : attempts[i] = strategy})

AttemptsBounded ==
    /\ Entered("static") <= 1 /\ Entered("selenium") <= 1 /\ Entered("rss") <= 1
    /\ loads <= 2
    /\ \A i \in DOMAIN attempts :
          \A j \in DOMAIN attempts :
              i < j => StrategyRank(attempts[i]) < StrategyRank(attempts[j])

\* C25: every call of scrape_indeed terminates after at most one static GET,
\* at most one rendered fetch of at most two page-load attempts and at most one
\* feed GET, and no strategy is entered again once the chain is past it.
C25_BoundedAttempts == [](AttemptsBounded) /\ <>(pc = "done")

\* the call ended after all three strategies and two page-load attempts
C25_Witness ==
    /\ pc = "done"
    /\ attempts = <<"static", "selenium", "rss">>
    /\ loads = 2

-----------------------------------------------------------------------------
(* The cross-source dedup pass, run on a list and then on its own output *)

MaxListings == 3

Listing(t, c, src) ==
    [title |-> t, company |-> c, location |-> "Location Not Specified",
     description |-> "Internship opportunity at " \o c, source |-> src]

DedupListings ==
    {Listing("Software Engineer Intern", "Acme", "Indeed"),
     Listing("software engineer intern", "ACME", "Glassdoor"),
     Listing("Software Engineer  Intern", "Acme", "Internships.com"),
     Listing("QA Intern", "Acme", "Glassdoor")}

InitDedup ==
    /\ all_internships \in SeqsUpTo(DedupListings, MaxListings)
    /\ unique_internships = <<>> /\ unique_again = <<>> /\ passes = 0
    /\ ScorerIdle /\ ArgsIdle /\ ChainIdle /\ HarvestIdle /\ DriverIdle /\ LinkIdle

\* the pass over all_internships
RunDedup ==
    /\ passes = 0
    /\ unique_internships' = remove_duplicates(all_internships)
    /\ passes' = 1
    /\ UNCHANGED <<all_internships, unique_again, scorerVars, chainVars, harvestVars, driverVars, linkVars>>

\* the same pass over what the first pass returned
RunAgain ==
    /\ passes = 1
    /\ unique_again' = remove_duplicates(unique_internships)
    /\ passes' = 2
    /\ UNCHANGED <<all_internships, unique_internships, scorerVars, chainVars, harvestVars, driverVars, linkVars>>

NextDedup == RunDedup \/ RunAgain

SpecDedup == InitDedup /\ [][NextDedup]_vars

\* C4: the cross-source dedup pass is idempotent: a second pass over the
\* output of the first returns that output, same elements in the same order.
C4_DedupIdempotent == passes = 2 => unique_again = unique_internships

\* a list with a duplicate went through both passes and the first pass dropped it
C4_Witness ==
    /\ passes = 2
    /\ Len(unique_internships) < Len(all_internships)
    /\ unique_internships # <<>>

-----------------------------------------------------------------------------
(* main.py: the synchronous harvest and then the streaming harvest of the
   same request, each scraper answering both the same way *)

MaxSources == 2

SourceIds == {"indeed", "glassdoor", "naukri"}

\* the fallback dict, were it to leave the query out
FallbackReplyWithoutQuery(req) ==
    [optimized_query |-> <<>>,
     location |-> req.location,
     keywords |-> Split(req.query),
     should_add_intern |-> ~Contains(Lower(req.query), "intern")
                               /\ ~Contains(Lower(req.query), "internship"),
     search_strategy |-> "Using original query (AI processing failed)"]

\* lines 565-584: what process_query_with_ai returns when the LLM call raises
\* or its reply is not valid JSON
FallbackReply(req) ==
    [optimized_query |-> <<req.query>>,
     location |-> req.location,
     keywords |-> Split(req.query),
     should_add_intern |-> ~Contains(Lower(req.query), "intern")
                               /\ ~Contains(Lower(req.query), "internship"),
     search_strategy |-> "Using original query (AI processing failed)"]

\* process_query_with_ai returns a dict: the fallback dict, or what json.loads
\* made of the reply, where "optimized_query" may be null
ProcessedReplies(req) ==
    {FallbackReply(req), [optimized_query |-> <<>>, location |-> req.location]}

FetchFailed == [kind |-> "exception"]

IndeedEnvs ==
    {[static |-> [kind |-> "page", cards |-> <<AcmeCard>>],
      selenium |-> [kind |-> "none"], rss |-> FetchFailed],
     [static |-> FetchFailed,
      selenium |-> [kind |-> "page", cards |-> <<AcmeCard, QaCard>>], rss |-> FetchFailed],
     [static |-> FetchFailed, selenium |-> [kind |-> "none"], rss |-> FetchFailed]}

\* the text nodes as they stand in the page, before get_text(strip=True)
LowerCaseCard ==
    [title |-> " software engineer intern ", company |-> <<" ACME">>, location |-> <<>>]

WideSpaceCard ==
    [title |-> "Software Engineer  Intern", company |-> <<"Acme">>, location |-> <<>>]

GlassdoorOutcomes ==
    {FetchFailed, [kind |-> "page", cards |-> <<LowerCaseCard>>],
     [kind |-> "page", cards |-> <<LowerCaseCard, WideSpaceCard>>]}

InternshipsComOutcomes ==
    {FetchFailed,
     [kind |-> "page",
      cards |-> <<[title |-> "Data Intern", company |-> <<"Globex">>, location |-> <<"Remote">>]>>]}

SkillIndiaOutcomes ==
    {[kind |-> "none"],
     [kind |-> "page",
      cards |-> <<[title |-> "Web Development Internship", company |-> <<>>,
                   location |-> <<>>, summary |-> <<>>]>>]}

Outcomes(scraper) ==
    IF scraper = "indeed" THEN IndeedEnvs
    ELSE IF scraper = "glassdoor" THEN GlassdoorOutcomes
    ELSE IF scraper = "internships.com" THEN InternshipsComOutcomes
    ELSE IF scraper = "skill_india" THEN SkillIndiaOutcomes
    ELSE {[kind |-> "skipped"]}

\* the scraper gave nothing because its fetches failed
SourceFailed(scraper, outcome) ==
    IF scraper = "indeed"
    THEN outcome.static.kind # "page" /\ outcome.selenium.kind # "page" /\ outcome.rss.kind # "feed"
    ELSE outcome.kind # "page"

\* one scraper call with the optimized query and location.  scrape_indeed
\* raises on a null query (query.strip(), line 370, outside every try);
\* scrape_internships_com catches its own TypeError from quote_plus(None)
CallScraper(scraper, outcome, reply, limit) ==
    LET l == reply.location
        null == reply.optimized_query = <<>>
        q == IF null THEN "None" ELSE reply.optimized_query[1]
    IN  IF scraper = "indeed"
        THEN IF null THEN [raised |-> TRUE, results |-> <<>>]
             ELSE [raised |-> FALSE,
                   results |-> scrape_indeed(SELENIUM_AVAILABLE, outcome, q, l, limit)]
        ELSE [raised |-> FALSE,
              results |->
                  IF scraper = "linkedin" THEN scrape_linkedin(q, l, limit)
                  ELSE IF scraper = "glassdoor" THEN scrape_glassdoor(outcome, q, l, limit)
                  ELSE IF scraper = "internships.com"
                       THEN (IF null THEN <<>> ELSE scrape_internships_com(outcome, q, l, limit))
                  ELSE IF scraper = "skill_india"
                       THEN scrape_skill_india(SELENIUM_AVAILABLE, outcome, q, l, limit)
                  ELSE <<>>]

InitHarvest ==
    /\ request \in [query : {"software engineer"}, location : {"", "bangalore"},
                    max_results : {1, 20}, sources : SeqsUpTo(SourceIds, MaxSources)]
    /\ scraper_exists \in BOOLEAN
    /\ SELENIUM_AVAILABLE \in BOOLEAN
    /\ processed \in ProcessedReplies(request)
    /\ scraped = <<>>
    /\ sync = [pc |-> "start"]
    /\ stream = [pc |-> "idle"]
    /\ max_results = 0 /\ pc = "idle"
    /\ attempts = <<>> /\ loads = 0 /\ yielded = {} /\ internships = <<>> /\ returned = <<>>
    /\ ScorerIdle /\ ArgsIdle /\ DedupIdle /\ DriverIdle /\ LinkIdle

HarvestUnchanged ==
    UNCHANGED <<request, scraper_exists, processed, scorerVars, chainVars, dedupVars, driverVars, linkVars>>

\* the answer of a scraper: the one it gave before, or a new one
Answer(scraper, outcome) ==
    /\ outcome \in (IF scraper \in DOMAIN scraped THEN {scraped[scraper]} ELSE Outcomes(scraper))
    /\ scraped' = IF scraper \in DOMAIN scraped THEN scraped ELSE scraped @@ (scraper :> outcome)

\* lines 694-734: dedup, format and the response body
Response(req, reply, sources, all) ==
    LET unique == FormatAll(remove_duplicates(all))
    IN  [success |-> TRUE,
         total_results |-> Len(unique),
         opportunities |-> unique,
         scraped_sources |-> sources,
         has_fallback |-> \E i \in DOMAIN unique : unique[i].source = "Sample",
         query_optimization |->
             [original_query |-> req.query, optimized_query |-> reply.optimized_query,
              original_location |-> req.location, optimized_location |-> reply.location]]

\* lines 594-639: the optimizer is asked, scraper.py is looked for (503 when it
\* is missing), the sources and the per-source maximum are fixed
SyncBegin ==
    /\ sync.pc = "start"
    /\ sync' = IF scraper_exists
               THEN [pc |-> "scraping", idx |-> 1,
                     sources |-> EffectiveSources(request.sources),
                     max_per_source |->
                         MaxPerSource(request.max_results, EffectiveSources(request.sources)),
                     all_internships |-> <<>>, attempted |-> <<>>]
               ELSE [pc |-> "failed", status |-> 503, attempted |-> <<>>]
    /\ UNCHANGED <<scraped, stream>>
    /\ HarvestUnchanged

\* lines 641-673: the next `if ... in sources` block.  Nothing catches what a
\* scraper raises before the handler's own except (lines 753-757): HTTP 500
SyncScrape ==
    /\ sync.pc = "scraping"
    /\ sync.idx <= Len(SyncOrder)
    /\ LET scraper == SyncOrder[sync.idx]
       IN  IF SyncSelects(scraper, sync.sources)
           THEN \E outcome \in Outcomes(scraper) :
                   /\ Answer(scraper, outcome)
                   /\ \E r \in {CallScraper(scraper, outcome, processed, sync.max_per_source)} :
                          sync' =
                            IF r.raised
                            THEN [pc |-> "failed", status |-> 500,
                                  attempted |-> Append(sync.attempted, scraper)]
                            ELSE [sync EXCEPT !.idx = @ + 1,
                                              !.all_internships = @ \o r.results,
                                              !.attempted = Append(@, scraper)]
           ELSE /\ sync' = [sync EXCEPT !.idx = @ + 1]
                /\ UNCHANGED scraped
    /\ UNCHANGED stream
    /\ HarvestUnchanged

\* lines 694-734
SyncFinish ==
    /\ sync.pc = "scraping"
    /\ sync.idx > Len(SyncOrder)
    /\ sync' = [pc |-> "done", status |-> 200, attempted |-> sync.attempted,
                all_internships |-> sync.all_internships,
                response |-> Response(request, processed, sync.sources, sync.all_internships)]
    /\ UNCHANGED <<scraped, stream>>
    /\ HarvestUnchanged

\* line 815, were the event to name the scraper called and not the identifier
ScrapingEventOfScraper(source) == [type |-> "scraping", source |-> StreamScraper(source)]

\* line 815
ScrapingEvent(source) == [type |-> "scraping", source |-> source]

\* line 835 with the type of line 867
SourceErrorAsError(source) == [type |-> "error", source |-> source]

\* line 835
SourceErrorEvent(source) == [type |-> "source_error", source |-> source]

\* lines 768-806: the first three events, then 'error' and return when
\* scraper.py is missing
StreamBegin ==
    /\ sync.pc \in {"done", "failed"}
    /\ stream.pc = "idle"
    /\ LET opening == <<[type |-> "status", progress |-> 0],
                        [type |-> "status", progress |-> 10],
                        [type |-> "query_optimized", original |-> request.query,
                         optimized |-> processed.optimized_query, progress |-> 20]>>
       IN  stream' =
             IF scraper_exists
             THEN [pc |-> "scraping", idx |-> 1,
                   sources |-> EffectiveSources(request.sources),
                   max_per_source |->
                       MaxPerSource(request.max_results, EffectiveSources(request.sources)),
                   all_internships |-> <<>>, attempted |-> <<>>, events |-> opening]
             ELSE [pc |-> "done", attempted |-> <<>>,
                   events |-> Append(opening, [type |-> "error", message |-> "Scraper not found"])]
    /\ UNCHANGED <<scraped, sync>>
    /\ HarvestUnchanged

\* lines 811-837: one turn of the loop over the sources as requested
StreamScrape ==
    /\ stream.pc = "scraping"
    /\ stream.idx <= Len(stream.sources)
    /\ LET source == stream.sources[stream.idx]
           scraper == StreamScraper(source)
           scraping == ScrapingEvent(source)
       IN  \E outcome \in Outcomes(scraper) :
              /\ IF scraper = "none" THEN UNCHANGED scraped ELSE Answer(scraper, outcome)
              /\ \E r \in {CallScraper(scraper, outcome, processed, stream.max_per_source)} :
                     stream' =
                       [stream EXCEPT
                          !.idx = @ + 1,
                          !.attempted = Append(@, source),
                          !.all_internships = IF r.raised THEN @ ELSE @ \o r.results,
                          !.events = @ \o <<scraping,
                                            IF r.raised THEN SourceErrorEvent(source)
                                            ELSE [type |-> "source_complete", source |-> source,
                                                  count |-> Len(r.results)]>>]
    /\ UNCHANGED sync
    /\ HarvestUnchanged

\* lines 839-867
StreamFinish ==
    /\ stream.pc = "scraping"
    /\ stream.idx > Len(stream.sources)
    /\ LET unique == FormatAll(remove_duplicates(stream.all_internships))
       IN  stream' =
             [pc |-> "done", attempted |-> stream.attempted,
              all_internships |-> stream.all_internships,
              events |-> stream.events \o
                  <<[type |-> "status", progress |-> 90],
                    [type |-> "complete", total |-> Len(unique),
                     opportunities |-> unique, progress |-> 100]>>]
    /\ UNCHANGED <<scraped, sync>>
    /\ HarvestUnchanged

NextHarvest ==
    SyncBegin \/ SyncScrape \/ SyncFinish \/ StreamBegin \/ StreamScrape \/ StreamFinish

SpecHarvest == InitHarvest /\ [][NextHarvest]_vars

-----------------------------------------------------------------------------
(* Properties of the harvest *)

\* C2: the synchronous harvest returns at most max_results x |sources|
\* listings, sources being the list of sources scraped, and its total count is
\* present and non-negative.
C2_ListingBound ==
    sync.pc = "done" =>
        /\ "total_results" \in DOMAIN sync.response
        /\ sync.response.total_results >= 0
        /\ Len(sync.response.opportunities)
               <= request.max_results * Len(sync.response.scraped_sources)

SameButCase(a, b) ==
    /\ Lower(a.title) = Lower(b.title)
    /\ Lower(a.company) = Lower(b.company)

SameButCaseAndSpace(a, b) ==
    /\ Split(Lower(a.title)) = Split(Lower(b.title))
    /\ Split(Lower(a.company)) = Split(Lower(b.company))

\* the first listing collected that is the same as x
FirstLike(Same(_, _), all, x) ==
    all[CHOOSE k \in DOMAIN all : Same(all[k], x) /\ \A m \in 1..(k - 1) : ~Same(all[m], x)]

\* out holds exactly one entry the same as x, and it is the listing first
OnlyEntryIs(Same(_, _), out, x, first) ==
    /\ Cardinality({k \in DOMAIN out : Same(out[k], x)}) = 1
    /\ \A k \in DOMAIN out :
          Same(out[k], x) =>
              /\ out[k].title = first.title
              /\ out[k].company = first.company
              /\ out[k].source = first.source

\* the response holds exactly one entry the same as x, the first one collected
OneEntryFromFirst(Same(_, _), all, out, x) ==
    OnlyEntryIs(Same, out, x, FirstLike(Same, all, x))

\* C3 as stated: when two sources return listings whose (title, company)
\* pairs are identical except for letter case and whitespace, the aggregated
\* output holds exactly one entry for the pair, the one of the first source.
C3_OneEntryPerPairCaseAndSpace ==
    sync.pc = "done" =>
        \A i \in DOMAIN sync.all_internships :
            \A j \in DOMAIN sync.all_internships :
                (/\ i < j
                 /\ sync.all_internships[i].source # sync.all_internships[j].source
                 /\ SameButCaseAndSpace(sync.all_internships[i], sync.all_internships[j]))
                    => OneEntryFromFirst(SameButCaseAndSpace, sync.all_internships,
                                         sync.response.opportunities, sync.all_internships[i])

\* C3, amended: when two sources return listings whose (title, company) pairs
\* are identical except for letter case, the aggregated output holds exactly
\* one entry for the pair, the one of the first source in iteration order.
C3_OneEntryPerPairCase ==
    sync.pc = "done" =>
        \A i \in DOMAIN sync.all_internships :
            \A j \in DOMAIN sync.all_internships :
                (/\ i < j
                 /\ sync.all_internships[i].source # sync.all_internships[j].source
                 /\ SameButCase(sync.all_internships[i], sync.all_internships[j]))
                    => OneEntryFromFirst(SameButCase, sync.all_internships,
                                         sync.response.opportunities, sync.all_internships[i])

\* Indeed and Glassdoor returned the same pair in different letter case and
\* the response was built
C3_Witness ==
    /\ sync.pc = "done"
    /\ \E i \in DOMAIN sync.all_internships :
          \E j \in DOMAIN sync.all_internships :
              /\ i < j
              /\ sync.all_internships[i].source = "Indeed"
              /\ sync.all_internships[j].source = "Glassdoor"
              /\ SameButCase(sync.all_internships[i], sync.all_internships[j])
              /\ sync.all_internships[i].title # sync.all_internships[j].title

\* C30: after the query_optimized event, every source of the effective list,
\* in list order, gets a scraping event followed at once by one
\* source_complete or source_error event for the same source, and the final
\* complete event comes only after the events of the last source.
C30_PerSourceEventPairs ==
    (stream.pc \in {"scraping", "done"} /\ scraper_exists) =>
        \E sources \in {EffectiveSources(request.sources)} :
            \E turns \in {IF stream.pc = "done" THEN Len(sources) ELSE stream.idx - 1} :
                /\ stream.events[3].type = "query_optimized"
                /\ Len(stream.events) = 3 + 2 * turns + (IF stream.pc = "done" THEN 2 ELSE 0)
                /\ \A k \in 1..turns :
                      /\ stream.events[2 + 2 * k] = [type |-> "scraping", source |-> sources[k]]
                      /\ stream.events[3 + 2 * k].type \in {"source_complete", "source_error"}
                      /\ stream.events[3 + 2 * k].source = sources[k]
                /\ stream.pc = "done" => stream.events[Len(stream.events)].type = "complete"
                /\ \A i \in 1..(Len(stream.events) - 1) : stream.events[i].type # "complete"

\* a finished stream over three sources, one of which raised and one of
\* which completed
C30_Witness ==
    /\ stream.pc = "done" /\ scraper_exists
    /\ Len(EffectiveSources(request.sources)) >= 3
    /\ \E i \in DOMAIN stream.events : stream.events[i].type = "source_error"
    /\ \E i \in DOMAIN stream.events : stream.events[i].type = "source_complete"
    /\ stream.events[Len(stream.events)].type = "complete"

TerminalTypes == {"complete", "error"}

\* C5: the event sequence of the streaming harvest ends with exactly one
\* terminal event, 'complete' or 'error', and no event follows it.
C5_OneTerminalEvent ==
    stream.pc \in {"scraping", "done"} =>
        /\ \A i \in DOMAIN stream.events :
              stream.events[i].type \in TerminalTypes
                  => i = Len(stream.events) /\ stream.pc = "done"
        /\ stream.pc = "done" =>
              /\ stream.events # <<>>
              /\ stream.events[Len(stream.events)].type \in TerminalTypes

\* a stream in which a source raised has ended with 'complete'
C5_Witness ==
    /\ stream.pc = "done"
    /\ \E i \in DOMAIN stream.events : stream.events[i].type = "source_error"
    /\ stream.events[Len(stream.events)].type = "complete"

\* C6: for the same request and the same per-source outcomes, the listing
\* sequence of the stream's 'complete' event equals the listing sequence the
\* synchronous harvest returned.
C6_StreamEqualsSync ==
    (/\ sync.pc = "done"
     /\ stream.pc = "done"
     /\ stream.events[Len(stream.events)].type = "complete")
        => stream.events[Len(stream.events)].opportunities = sync.response.opportunities

\* every source the synchronous harvest scraped failed to fetch anything
AllSourcesFailed ==
    /\ sync.attempted # <<>>
    /\ \A i \in DOMAIN sync.attempted :
          SourceFailed(sync.attempted[i], scraped[sync.attempted[i]])

\* C7: when every configured source fails, the synchronous harvest returns
\* success true, total_results 0, no opportunities, and per-source diagnostics
\* giving the failure reason of each attempted source.
C7_AllFailedDiagnostics ==
    (sync.pc = "done" /\ AllSourcesFailed) =>
        /\ sync.response.success
        /\ sync.response.total_results = 0
        /\ sync.response.opportunities = <<>>
        /\ "diagnostics" \in DOMAIN sync.response
        /\ \A i \in DOMAIN sync.attempted :
              sync.attempted[i] \in DOMAIN sync.response.diagnostics

\* C8: a failure of one source never cancels the others: every requested
\* source is attempted whether or not earlier ones failed or raised, and the
\* harvest ends with the listings collected.
C8_FailureIsolation ==
    /\ (scraper_exists /\ sync.pc \in {"done", "failed"}) =>
          /\ \A i \in DOMAIN SyncOrder :
                SyncSelects(SyncOrder[i], EffectiveSources(request.sources))
                    => InSeq(SyncOrder[i], sync.attempted)
          /\ sync.pc = "done"
    /\ (scraper_exists /\ stream.pc = "done") =>
          /\ stream.attempted = EffectiveSources(request.sources)
          /\ stream.events[Len(stream.events)].type = "complete"

\* C16: the source list reported in the response (scraped_sources) is exactly
\* the set of sources for which a scrape was attempted: no identifier is
\* reported without its scraper having been invoked, and no scraper is invoked
\* for an identifier that is not reported.
C16_ReportedSourcesAttempted ==
    sync.pc = "done" =>
        {sync.response.scraped_sources[i] : i \in DOMAIN sync.response.scraped_sources}
            = {sync.attempted[i] : i \in DOMAIN sync.attempted}

\* process_query_with_ai returned its fallback dict
OptimizerFailed ==
    /\ "search_strategy" \in DOMAIN processed
    /\ processed.search_strategy = "Using original query (AI processing failed)"

\* C17: when the query optimizer fails, the harvest proceeds with
\* optimized_query = raw query, location = raw location and keywords = the
\* whitespace split of the raw query, and still scrapes every source instead
\* of failing the request.
C17_OptimizerFailureDegrades ==
    (OptimizerFailed /\ scraper_exists /\ sync.pc \in {"done", "failed"}) =>
        /\ processed.optimized_query = <<request.query>>
        /\ processed.location = request.location
        /\ processed.keywords = Split(request.query)
        /\ sync.pc = "done" /\ sync.status = 200
        /\ sync.response.query_optimization.optimized_query = <<request.query>>
        /\ \A i \in DOMAIN SyncOrder :
              SyncSelects(SyncOrder[i], EffectiveSources(request.sources))
                  => InSeq(SyncOrder[i], sync.attempted)
        /\ stream.pc = "done" =>
              /\ stream.attempted = EffectiveSources(request.sources)
              /\ stream.events[Len(stream.events)].type = "complete"

\* the optimizer failed, every default source was scraped and listings came back
C17_Witness ==
    /\ OptimizerFailed
    /\ request.sources = <<>>
    /\ sync.pc = "done" /\ Len(sync.attempted) = 5
    /\ sync.response.total_results > 0
    /\ stream.pc = "done"

-----------------------------------------------------------------------------
(* scrape_indeed as one call in a given environment: scraped.indeed is what
   each fetch of the call answers, returned is what the call returns *)

EngineeringCard ==
    [title |-> "Software Engineering Intern", company |-> <<"Acme">>,
     location |-> <<"Bengaluru, Karnataka">>, summary |-> <<>>]

\* line 432: a page whose URL holds 'captcha' or whose first 1000 characters
\* hold 'unusual'; the page may well carry job cards
ChallengePage == [kind |-> "captcha", cards |-> <<EngineeringCard>>]

CallStaticOutcomes ==
    {FetchFailed, ChallengePage, [kind |-> "nojobs"],
     [kind |-> "page", cards |-> <<EngineeringCard>>],
     [kind |-> "page", cards |-> <<QaCard, EngineeringCard>>]}

CallSeleniumOutcomes ==
    {[kind |-> "none"],
     [kind |-> "page", cards |-> <<QaCard>>],
     [kind |-> "page", cards |-> <<QaCard, EngineeringCard>>],
     [kind |-> "page", cards |-> <<SalesCard>>]}

CallRssOutcomes ==
    {FetchFailed,
     [kind |-> "feed",
      items |-> <<[title |-> "Software Engineer Intern - Acme - Bengaluru, Karnataka",
                   description |-> <<>>]>>]}

InitIndeed ==
    /\ SELENIUM_AVAILABLE \in BOOLEAN
    /\ query \in {"software engineer"}
    /\ location \in RequestedLocations
    /\ max_results \in 1..2
    /\ scraped \in [indeed : [static : CallStaticOutcomes, selenium : CallSeleniumOutcomes,
                              rss : CallRssOutcomes]]
    /\ pc = "call"
    /\ attempts = <<>> /\ loads = 0 /\ yielded = {} /\ internships = <<>> /\ returned = <<>>
    /\ ScorerIdle /\ DedupIdle /\ DriverIdle /\ LinkIdle
    /\ request = [query |-> "", location |-> "", max_results |-> 0, sources |-> <<>>]
    /\ scraper_exists = TRUE /\ processed = <<>>
    /\ sync = [pc |-> "idle"] /\ stream = [pc |-> "idle"]

\* lines 362-542
CallScrapeIndeed ==
    /\ pc = "call"
    /\ returned' = scrape_indeed(SELENIUM_AVAILABLE, scraped.indeed, query, location, max_results)
    /\ pc' = "returned"
    /\ UNCHANGED <<SELENIUM_AVAILABLE, max_results, attempts, loads, yielded, internships>>
    /\ UNCHANGED <<scorerVars, dedupVars, driverVars, linkVars, harvestVars>>

NextIndeed == CallScrapeIndeed

SpecIndeed == InitIndeed /\ [][NextIndeed]_vars

\* the static fetch got a challenge page and the rendered fetch a document
ChallengeThenRendered ==
    /\ pc = "returned"
    /\ scraped.indeed.static.kind = "captcha"
    /\ SELENIUM_AVAILABLE
    /\ scraped.indeed.selenium.kind = "page"

RenderedListings ==
    parse_indeed_html(scraped.indeed.selenium.cards, query, location, max_results * 2)

BangaloreFixtureCall ==
    /\ pc = "returned"
    /\ location = "bangalore"
    /\ scraped.indeed.static = [kind |-> "page", cards |-> <<EngineeringCard>>]

\* C13: for query 'software engineer' and location 'bangalore' the candidate
\* 'Software Engineering Intern' in 'Bengaluru, Karnataka' passes the relevance
\* check, scores at least 0.6, survives the adaptive threshold and is in the
\* list the call returns.
C13_BangaloreListingReturned ==
    BangaloreFixtureCall =>
        \E job \in {CardListing(EngineeringCard, query, location)} :
            /\ is_relevant(job.title, job.description, job.location, query, location)
            /\ calculate_relevance_score(job.title, job.description, job.location,
                                         query, location) >= Pts(60)
            /\ RankParsed(<<job>>, query, location, max_results) = <<job>>
            /\ \E i \in DOMAIN returned : returned[i] = job

\* the scores of a list are in non-increasing order
ScoresNonIncreasing(scored) ==
    \A i \in DOMAIN scored :
        \A j \in DOMAIN scored : i < j => scored[i].score >= scored[j].score

\* C20: every non-empty list returned by scrape_indeed, whichever strategy
\* produced it, is sorted in non-increasing order of relevance score and holds
\* at most max_results listings.
C20_ReturnedSortedAndBounded ==
    (pc = "returned" /\ returned # <<>>) =>
        /\ Len(returned) <= max_results
        /\ ScoresNonIncreasing(Scored(returned, query, location))

-----------------------------------------------------------------------------
(* Lines 446-480 of scrape_indeed on what a page parsed to: internships is the
   parsed candidate list, returned the list after scoring, threshold and sort *)

MaxRanked == 3

InternCard ==
    [title |-> "Intern", company |-> <<"Globex">>,
     location |-> <<"Hyderabad, Telangana">>, summary |-> <<>>]

DeveloperCard(kind) ==
    [title |-> kind \o " Developer Intern", company |-> <<"Globex">>,
     location |-> <<"Hyderabad, Telangana">>, summary |-> <<>>]

RankCards == {EngineeringCard, InternCard, QaCard, DeveloperCard("Web")}

\* a page of six cards, so that more than five candidates remain
SixDeveloperCards ==
    <<DeveloperCard("Web"), DeveloperCard("Backend"), DeveloperCard("Mobile"),
      DeveloperCard("Java"), DeveloperCard("Python"), DeveloperCard("Cloud")>>

RankPages == SeqsUpTo(RankCards, MaxRanked) \cup {SixDeveloperCards}

InitRank ==
    /\ query \in {"software engineer"}
    /\ location \in RequestedLocations
    /\ max_results \in 1..3
    /\ internships \in {parse_indeed_html(cards, query, location, max_results * 2) :
                            cards \in RankPages}
    /\ pc = "rank"
    /\ SELENIUM_AVAILABLE = FALSE
    /\ attempts = <<>> /\ loads = 0 /\ yielded = {} /\ returned = <<>>
    /\ ScorerIdle /\ DedupIdle /\ DriverIdle /\ LinkIdle /\ HarvestIdle

\* lines 446-480
Rank ==
    /\ pc = "rank"
    /\ returned' = RankParsed(internships, query, location, max_results)
    /\ pc' = "ranked"
    /\ UNCHANGED <<SELENIUM_AVAILABLE, max_results, attempts, loads, yielded, internships>>
    /\ UNCHANGED <<scorerVars, dedupVars, driverVars, linkVars, harvestVars>>

NextRank == Rank

SpecRank == InitRank /\ [][NextRank]_vars

\* the only candidate is 'Software Engineering Intern' in 'Bengaluru, Karnataka'
OnlyEngineeringCandidate ==
    /\ Len(internships) = 1
    /\ internships[1].title = "Software Engineering Intern"
    /\ internships[1].location = "Bengaluru, Karnataka"

\* C12: for query 'software engineer' and location 'new york' the single
\* candidate 'Software Engineering Intern' in 'Bengaluru, Karnataka' scores
\* below the lenient floor of 0.15 used when at most 5 candidates remain, and
\* the non-empty fallback still returns it.
C12_MismatchBelowLenientFloor ==
    (pc = "ranked" /\ location = "new york" /\ OnlyEngineeringCandidate) =>
        /\ Scored(internships, query, location)[1].score < Pts(15)
        /\ returned = internships

\* the adaptive threshold leaves none of the scored candidates
AllEliminated(scored) ==
    \A i \in DOMAIN scored : scored[i].score < MinScore(scored, location)

\* the result holds the highest-scoring candidates
HighestScoring(scored) ==
    \A i \in DOMAIN scored :
        \A j \in DOMAIN scored :
            (InSeq(scored[i].job, returned) /\ ~InSeq(scored[j].job, returned))
                => scored[i].score >= scored[j].score

\* C19: Filter and Rank never turns a non-empty candidate set into an empty
\* result: when the adaptive threshold eliminates every scored candidate the
\* result is the highest-scoring candidates, at most max_results of them.
C19_NeverEmptiesCandidates ==
    (pc = "ranked" /\ internships # <<>>) =>
        /\ returned # <<>>
        /\ Len(returned) <= max_results
        /\ \E scored \in {Scored(internships, query, location)} :
              AllEliminated(scored) =>
                  /\ Len(returned) = IF Len(scored) < max_results THEN Len(scored) ELSE max_results
                  /\ HighestScoring(scored)

\* more than five candidates remained, each scored below the threshold of
\* 0.25, and the result is not empty
C19_Witness ==
    /\ pc = "ranked" /\ Len(internships) > 5
    /\ AllEliminated(Scored(internships, query, location))
    /\ returned # <<>>

\* six scored candidates none of which is a strong match: the six developer
\* cards in Hyderabad when 'bangalore' is requested, 0.22 each
WeakSix ==
    Scored(parse_indeed_html(SixDeveloperCards, "software engineer", "bangalore", 6),
           "software engineer", "bangalore")

\* C21: the minimum score is 0.15 when at most 5 candidates were scored; with
\* more than 5 it is a higher floor when a strong match exists (maximum score
\* above 0.4) than when none exists.
C21_StricterFloorOnStrongMatch ==
    pc = "ranked" =>
        \E scored \in {Scored(internships, query, location)} :
            /\ (scored # <<>> /\ Len(scored) <= 5) => MinScore(scored, location) = Pts(15)
            /\ (Len(scored) > 5 /\ MaxScore(scored) > Pts(40)) =>
                  /\ Len(WeakSix) > 5 /\ MaxScore(WeakSix) <= Pts(40)
                  /\ MinScore(scored, location) > MinScore(WeakSix, "bangalore")

-----------------------------------------------------------------------------
(* The headless-browser driver over the requests one process serves *)

MaxRequests == 3
MaxFetches == 4

InitDriver ==
    /\ SELENIUM_AVAILABLE \in BOOLEAN
    /\ pc = "waiting"
    /\ DriverIdle /\ LinkIdle
    /\ max_results = 0
    /\ attempts = <<>> /\ loads = 0 /\ yielded = {} /\ internships = <<>> /\ returned = <<>>
    /\ ScorerIdle /\ ArgsIdle /\ DedupIdle /\ HarvestIdle

DriverUnchanged ==
    UNCHANGED <<SELENIUM_AVAILABLE, max_results, attempts, loads, yielded, internships, returned,
                scorerVars, dedupVars, harvestVars, linkVars>>

\* main.py lines 621 and 795: each request builds its own InternshipScraper,
\* whose _driver starts as None (scraper.py line 75)
BeginRequest ==
    /\ pc = "waiting"
    /\ served < MaxRequests
    /\ served' = served + 1
    /\ driver' = 0
    /\ pc' = "serving"
    /\ UNCHANGED <<created, fetched>>
    /\ DriverUnchanged

\* lines 91-137: _get_driver answers None without Selenium, the instance's
\* driver when it has one, and else creates one
GetDriverNone ==
    /\ ~SELENIUM_AVAILABLE
    /\ fetched' = Append(fetched, 0)
    /\ UNCHANGED <<driver, created>>

GetDriverReuse ==
    /\ SELENIUM_AVAILABLE /\ driver # 0
    /\ fetched' = Append(fetched, driver)
    /\ UNCHANGED <<driver, created>>

\* lines 116-124 and 131
GetDriverCreate ==
    /\ SELENIUM_AVAILABLE /\ driver = 0
    /\ created' = created + 1
    /\ driver' = created + 1
    /\ fetched' = Append(fetched, created + 1)

\* webdriver.Chrome raises: nothing is created and None is returned (132-135)
GetDriverCreateFails ==
    /\ SELENIUM_AVAILABLE /\ driver = 0
    /\ fetched' = Append(fetched, 0)
    /\ UNCHANGED <<driver, created>>

\* execute_cdp_cmd raises after the driver was stored (127-135): None is
\* returned this time and the stored driver the next
GetDriverCreatedThenFails ==
    /\ SELENIUM_AVAILABLE /\ driver = 0
    /\ created' = created + 1
    /\ driver' = created + 1
    /\ fetched' = Append(fetched, 0)

\* lines 139-147: a rendered fetch of the request asks for the driver
RenderedFetch ==
    /\ pc = "serving"
    /\ Len(fetched) < MaxFetches
    /\ \/ GetDriverNone
       \/ GetDriverReuse
       \/ GetDriverCreate
       \/ GetDriverCreateFails
       \/ GetDriverCreatedThenFails
    /\ UNCHANGED <<pc, served>>
    /\ DriverUnchanged

\* the handler returns; its scraper goes out of scope
EndRequest ==
    /\ pc = "serving"
    /\ pc' = "waiting"
    /\ UNCHANGED driverVars
    /\ DriverUnchanged

NextDriver == BeginRequest \/ RenderedFetch \/ EndRequest

SpecDriver == InitDriver /\ [][NextDriver]_vars

\* C14: across the requests one process serves, the browser driver is created
\* at most once, and every rendered fetch that gets a driver gets that one.
C14_DriverCreatedOnce ==
    /\ created <= 1
    /\ \A i \in DOMAIN fetched :
          \A j \in DOMAIN fetched :
              (fetched[i] # 0 /\ fetched[j] # 0) => fetched[i] = fetched[j]

-----------------------------------------------------------------------------
(* The extractors, each on a fetched document: scraped maps the source to its
   document, internships is what the extractor emitted *)

\* a card whose company element is there and holds no text
EmptyCompanyCard ==
    [title |-> "Software Engineer Intern", company |-> <<"">>,
     location |-> <<"Bengaluru, Karnataka">>, summary |-> <<>>]

ExtractCards == {AcmeCard, QaCard, EmptyCompanyCard}

\* a feed title that starts with the ' - ' separator
SeparatorFirstItem == [title |-> " - Acme - Bengaluru, Karnataka", description |-> <<>>]

ExtractFeedItems == FeedItems \cup {SeparatorFirstItem}

Extractors == {"indeed", "indeed_rss", "glassdoor", "internships.com", "skill_india"}

Documents(extractor) ==
    IF extractor = "indeed_rss"
    THEN {[kind |-> "feed", items |-> c] : c \in SeqsUpTo(ExtractFeedItems, MaxCards)}
    ELSE {[kind |-> "page", cards |-> c] : c \in SeqsUpTo(ExtractCards, MaxCards)}

Extract(extractor, document, q, l, limit) ==
    IF extractor = "indeed" THEN parse_indeed_html(document.cards, q, l, limit * 2)
    ELSE IF extractor = "indeed_rss" THEN scrape_indeed_rss(document, q, l, limit)
    ELSE IF extractor = "glassdoor" THEN scrape_glassdoor(document, q, l, limit)
    ELSE IF extractor = "internships.com" THEN scrape_internships_com(document, q, l, limit)
    ELSE scrape_skill_india(TRUE, document, q, l, limit)

InitExtract ==
    /\ query \in {"software engineer"}
    /\ location \in RequestedLocations
    /\ max_results \in 1..2
    /\ \E extractor \in Extractors :
          \E document \in Documents(extractor) : scraped = (extractor :> document)
    /\ pc = "extract"
    /\ SELENIUM_AVAILABLE = TRUE
    /\ attempts = <<>> /\ loads = 0 /\ yielded = {} /\ internships = <<>> /\ returned = <<>>
    /\ ScorerIdle /\ DedupIdle /\ DriverIdle /\ LinkIdle
    /\ request = [query |-> "", location |-> "", max_results |-> 0, sources |-> <<>>]
    /\ scraper_exists = TRUE /\ processed = <<>>
    /\ sync = [pc |-> "idle"] /\ stream = [pc |-> "idle"]

RunExtractor ==
    /\ pc = "extract"
    /\ \E extractor \in DOMAIN scraped :
          internships' = Extract(extractor, scraped[extractor], query, location, max_results)
    /\ pc' = "extracted"
    /\ UNCHANGED <<SELENIUM_AVAILABLE, max_results, attempts, loads, yielded, returned>>
    /\ UNCHANGED <<scorerVars, dedupVars, driverVars, linkVars, harvestVars>>

NextExtract == RunExtractor

SpecExtract == InitExtract /\ [][NextExtract]_vars

\* C15: every listing an extractor emits has a non-empty title and a
\* non-empty company, also when the company element holds no text and when a
\* feed title starts with the ' - ' separator.
C15_TitleAndCompanyNonEmpty ==
    pc = "extracted" =>
        \A i \in DOMAIN internships :
            internships[i].title # "" /\ internships[i].company # ""

\* C22: every list a single-source scrape returns holds no two listings whose
\* titles are equal after lower-casing.
C22_TitlesUniquePerSource ==
    pc = "extracted" =>
        \A i \in DOMAIN internships :
            \A j \in DOMAIN internships :
                i # j => Lower(internships[i].title) # Lower(internships[j].title)

-----------------------------------------------------------------------------
(* scrape_skill_india: the rendered fetch, its retry, and the parse *)

\* what _scrape_with_selenium answers: None or a page source.  It never
\* raises: its body is inside a try whose handler returns (lines 149-236) and
\* _get_driver catches what the driver's creation raises (lines 132-135)
RenderedOutcomes ==
    {[kind |-> "none"]} \cup {[kind |-> "page", cards |-> c] : c \in SeqsUpTo(ExtractCards, MaxCards)}

\* lines 1093-1108: the fetch with a ready selector, and the fetch with no
\* selector that the except branch makes when the first one raises
SkillIndiaFetches(outcome) ==
    IF outcome.kind = "raised" THEN <<"rendered", "relaxed">> ELSE <<"rendered">>

InitSkillIndia ==
    /\ SELENIUM_AVAILABLE \in BOOLEAN
    /\ query \in {"software engineer"}
    /\ location \in RequestedLocations
    /\ max_results \in 1..2
    /\ pc = "fetch"
    /\ attempts = <<>> /\ loads = 0 /\ yielded = {} /\ internships = <<>> /\ returned = <<>>
    /\ ScorerIdle /\ DedupIdle /\ DriverIdle /\ LinkIdle /\ HarvestIdle

SkillIndiaUnchanged ==
    /\ UNCHANGED <<SELENIUM_AVAILABLE, max_results, loads, yielded, internships>>
    /\ UNCHANGED <<request, scraper_exists, processed, sync, stream>>
    /\ UNCHANGED <<scorerVars, dedupVars, driverVars, linkVars>>

\* lines 1088-1113: page_source stays None without Selenium; with it the
\* rendered fetch is made, and no page source means the empty list is returned
SkillIndiaFetch ==
    /\ pc = "fetch"
    /\ \E outcome \in (IF SELENIUM_AVAILABLE THEN RenderedOutcomes ELSE {[kind |-> "none"]}) :
          /\ scraped' = [skill_india |-> outcome]
          /\ attempts' = IF SELENIUM_AVAILABLE THEN SkillIndiaFetches(outcome) ELSE <<>>
          /\ pc' = IF outcome.kind = "page" THEN "parse" ELSE "returned"
    /\ UNCHANGED returned
    /\ SkillIndiaUnchanged

\* lines 1115-1215
SkillIndiaParse ==
    /\ pc = "parse"
    /\ returned' = scrape_skill_india(SELENIUM_AVAILABLE, scraped.skill_india,
                                      query, location, max_results)
    /\ pc' = "returned"
    /\ UNCHANGED <<attempts, scraped>>
    /\ SkillIndiaUnchanged

NextSkillIndia == SkillIndiaFetch \/ SkillIndiaParse

SpecSkillIndia == InitSkillIndia /\ [][NextSkillIndia]_vars

\* C24: the Skill India scrape gives up with no document only after a second
\* rendered fetch with relaxed waiting: when the first rendered fetch yields no
\* usable markup, exactly one such retry happens before the source is reported
\* empty.
C24_RetryBeforeGivingUp ==
    (pc = "returned" /\ SELENIUM_AVAILABLE /\ scraped.skill_india.kind = "none") =>
        attempts = <<"rendered", "relaxed">>

-----------------------------------------------------------------------------
(* Sequential scrape_indeed calls on one scraper instance: the search domain
   and the job links *)

MaxCalls == 2

\* lines 251-262: the lookup table, in the order of the dict
indian_city_keys ==
    <<"bangalore", "banglore", "bengaluru", "bangaluru", "mumbai", "delhi", "hyderabad",
      "chennai", "pune", "coimbatore">>

formatted_location(city_key) ==
    CASE city_key \in {"bangalore", "banglore", "bengaluru", "bangaluru"} -> "Bengaluru, Karnataka"
      [] city_key = "mumbai" -> "Mumbai, Maharashtra"
      [] city_key = "delhi" -> "Delhi, Delhi"
      [] city_key = "hyderabad" -> "Hyderabad, Telangana"
      [] city_key = "chennai" -> "Chennai, Tamil Nadu"
      [] city_key = "pune" -> "Pune, Maharashtra"
      [] city_key = "coimbatore" -> "Coimbatore, Tamil Nadu"

\* lines 249-272: the first key of the table found in the lower-cased location
get_indeed_domain_and_location(l) ==
    LET loc_lower == Strip(Lower(l))
        hits == {i \in DOMAIN indian_city_keys : Contains(loc_lower, indian_city_keys[i])}
    IN  IF hits # {}
        THEN [domain |-> "in.indeed.com",
              location |-> formatted_location(
                  indian_city_keys[CHOOSE i \in hits : \A j \in hits : i <= j])]
        ELSE [domain |-> "www.indeed.com", location |-> Strip(l)]

\* lines 671 and 682: the cities that make a job link an Indian one
link_cities ==
    {"bangalore", "banglore", "mumbai", "delhi", "hyderabad", "chennai", "pune", "coimbatore"}

LinkDomain(cur_location) ==
    IF cur_location # "" /\ ContainsAny(cur_location, link_cities)
    THEN "in.indeed.com" ELSE "www.indeed.com"

\* lines 667-685: the link of a card, from its job key or else its href
JobLink(card, cur_location) ==
    IF Present(card.job_key) /\ card.job_key[1] # ""
    THEN [via |-> "job_key",
          url |-> "https://" \o LinkDomain(cur_location) \o "/viewjob?jk=" \o card.job_key[1]]
    ELSE IF Present(card.href) /\ card.href[1] # ""
         THEN IF Char(card.href[1], 1) = "/"
              THEN [via |-> "relative",
                    url |-> "https://" \o LinkDomain(cur_location) \o card.href[1]]
              ELSE IF Len(card.href[1]) >= 4 /\ SubSeq(card.href[1], 1, 4) = "http"
                   THEN [via |-> "absolute", url |-> card.href[1]]
                   ELSE [via |-> "none", url |-> ""]
         ELSE [via |-> "none", url |-> ""]

\* the host of an https URL
UrlDomain(url) == SplitOn(SubSeq(url, 9, Len(url)), "/")[1]

\* lines 560-714: the links of the listings that _parse_indeed_html keeps
IndeedJobLinks(cards, q, l, limit, cur_location) ==
    LET Kept(card) == CardKept(card, q, l)
        kept == SelectSeq(Take(cards, limit), Kept)
        listed == UniqueTitles([i \in DOMAIN kept |->
                                   [title |-> CardListing(kept[i], q, l).title,
                                    link |-> JobLink(kept[i], cur_location)]], {})
    IN  [i \in DOMAIN listed |-> listed[i].link]

\* the instance's location, were a call to leave the stored one in place
KeepCurrentLocation(stored, l) == stored

\* line 406
StoreCurrentLocation(stored, l) == Lower(l)

KeyCard ==
    [title |-> "Software Engineer Intern", company |-> <<"Acme">>, location |-> <<>>,
     summary |-> <<>>, job_key |-> <<"a1b2">>, href |-> <<"/rc/clk?jk=a1b2">>]

RelativeCard ==
    [title |-> "Software Engineering Intern", company |-> <<"Globex">>, location |-> <<>>,
     summary |-> <<>>, job_key |-> <<>>, href |-> <<"/rc/clk?jk=c3d4">>]

AbsoluteCard ==
    [title |-> "Software Developer Intern", company |-> <<"Initech">>,
     location |-> <<"Bengaluru, Karnataka">>, summary |-> <<>>, job_key |-> <<"">>,
     href |-> <<"https://in.indeed.com/viewjob?jk=e5f6">>]

LinkPages ==
    {FetchFailed,
     [kind |-> "page", cards |-> <<KeyCard>>],
     [kind |-> "page", cards |-> <<RelativeCard, AbsoluteCard>>]}

CanonicalLocations == {formatted_location(indian_city_keys[i]) : i \in DOMAIN indian_city_keys}

LinkLocations ==
    {indian_city_keys[i] : i \in DOMAIN indian_city_keys} \cup CanonicalLocations
        \cup {"", "New York, NY"}

InitLinks ==
    /\ LinkIdle
    /\ SELENIUM_AVAILABLE = FALSE /\ max_results = 2
    /\ query = "" /\ location = ""
    /\ title = "" /\ description = "" /\ job_location = "" /\ score = NotScored /\ prev = NoCall
    /\ pc = "idle"
    /\ attempts = <<>> /\ loads = 0 /\ yielded = {} /\ internships = <<>> /\ returned = <<>>
    /\ DedupIdle /\ DriverIdle
    /\ request = [query |-> "", location |-> "", max_results |-> 0, sources |-> <<>>]
    /\ scraper_exists = TRUE /\ processed = <<>> /\ scraped = <<>>
    /\ sync = [pc |-> "idle"] /\ stream = [pc |-> "idle"]

\* lines 362-408 of one more call on the same instance: the search domain is
\* resolved, the query and the location are stored, and the static fetch is
\* made; prev remembers the search domain of the call before
BeginScrapeIndeed ==
    /\ pc \in {"idle", "returned"}
    /\ calls < MaxCalls
    /\ \E l \in LinkLocations, page \in LinkPages :
          /\ query' = "software engineer" /\ location' = l
          /\ scraped' = [indeed |-> [static |-> page, selenium |-> [kind |-> "none"],
                                     rss |-> FetchFailed]]
          /\ indeed_domain' = get_indeed_domain_and_location(l).domain
          /\ current_query' = Lower("software engineer")
          /\ current_location' = StoreCurrentLocation(current_location, l)
    /\ prev' = IF calls = 0 THEN NoCall ELSE [op |-> "call", domain |-> indeed_domain]
    /\ calls' = calls + 1
    /\ pc' = "fetched"
    /\ job_links' = <<>> /\ returned' = <<>>
    /\ UNCHANGED <<title, description, job_location, score>>
    /\ UNCHANGED <<SELENIUM_AVAILABLE, max_results, attempts, loads, yielded, internships>>
    /\ UNCHANGED <<dedupVars, driverVars>>
    /\ UNCHANGED <<request, scraper_exists, processed, sync, stream>>

\* lines 410-542: the document is parsed, with the job links built from the
\* stored location, and the call returns
ParseAndReturn ==
    /\ pc = "fetched"
    /\ job_links' = IF scraped.indeed.static.kind = "page"
                    THEN IndeedJobLinks(scraped.indeed.static.cards, query, location,
                                        max_results * 2, current_location)
                    ELSE <<>>
    /\ returned' = scrape_indeed(SELENIUM_AVAILABLE, scraped.indeed, query, location,
                                 max_results)
    /\ pc' = "returned"
    /\ UNCHANGED <<current_query, current_location, indeed_domain, calls>>
    /\ UNCHANGED <<scorerVars, dedupVars, driverVars, harvestVars>>
    /\ UNCHANGED <<SELENIUM_AVAILABLE, max_results, attempts, loads, yielded, internships>>

NextLinks == BeginScrapeIndeed \/ ParseAndReturn

SpecLinks == InitLinks /\ [][NextLinks]_vars

\* C26: the links and the listings a call leaves are those a fresh instance
\* makes of the call's own location and document, whatever the calls before
\* it were given.
C26_CallsIndependent ==
    (calls > 0 /\ pc = "returned") =>
        /\ job_links = IF scraped.indeed.static.kind = "page"
                       THEN IndeedJobLinks(scraped.indeed.static.cards, query, location,
                                           max_results * 2, Lower(location))
                       ELSE <<>>
        /\ returned = scrape_indeed(SELENIUM_AVAILABLE, scraped.indeed, query, location,
                                    max_results)

\* a US call came after an Indian one on the same instance and built a link
C26_Witness ==
    /\ calls = 2 /\ pc = "returned" /\ prev # NoCall
    /\ prev.domain = "in.indeed.com" /\ indeed_domain = "www.indeed.com"
    /\ \E i \in DOMAIN job_links :
          job_links[i].via = "job_key" /\ UrlDomain(job_links[i].url) = "www.indeed.com"

\* C29: every job link built from a job key or a relative href is on the
\* domain that the search URL of the call was built on.
C29_LinkDomainIsSearchDomain ==
    (calls > 0 /\ pc = "returned") =>
        \A i \in DOMAIN job_links :
            job_links[i].via \in {"job_key", "relative"} =>
                UrlDomain(job_links[i].url) = indeed_domain

-----------------------------------------------------------------------------
(* A requested city resolved to its canonical string, and a candidate in that
   city scored against it *)

InitResolve ==
    /\ request \in [query : Queries,
                    location : {indian_city_keys[i] : i \in DOMAIN indian_city_keys},
                    max_results : {0}, sources : {<<>>}]
    /\ title \in Titles
    /\ description \in Descriptions
    /\ query = request.query
    /\ location = "" /\ job_location = ""
    /\ score = NotScored /\ prev = NoCall
    /\ SELENIUM_AVAILABLE = FALSE /\ max_results = 0 /\ pc = "alias"
    /\ attempts = <<>> /\ loads = 0 /\ yielded = {} /\ internships = <<>> /\ returned = <<>>
    /\ DedupIdle /\ DriverIdle /\ LinkIdle
    /\ scraper_exists = TRUE /\ processed = <<>> /\ scraped = <<>>
    /\ sync = [pc |-> "idle"] /\ stream = [pc |-> "idle"]

\* main.py lines 520-527: the location leaves the optimizer in the full
\* "City, State" format, the string the lookup table holds for the city
Canonicalise ==
    /\ pc = "alias"
    /\ location' = get_indeed_domain_and_location(request.location).location
    /\ pc' = "canonical"
    /\ UNCHANGED <<title, description, job_location, query, score, prev>>
    /\ UNCHANGED <<SELENIUM_AVAILABLE, max_results, attempts, loads, yielded, internships, returned>>
    /\ UNCHANGED <<dedupVars, driverVars, linkVars, harvestVars>>

\* lines 716-829 on a candidate whose location is the canonical string itself
ScoreCanonical ==
    /\ pc = "canonical"
    /\ job_location' = location
    /\ score' = calculate_relevance_score(title, description, location, query, location)
    /\ pc' = "scored"
    /\ UNCHANGED <<title, description, query, location, prev>>
    /\ UNCHANGED <<SELENIUM_AVAILABLE, max_results, attempts, loads, yielded, internships, returned>>
    /\ UNCHANGED <<dedupVars, driverVars, linkVars, harvestVars>>

NextResolve == Canonicalise \/ ScoreCanonical

SpecResolve == InitResolve /\ [][NextResolve]_vars

\* C28: a candidate located at the canonical string of the requested city,
\* scored against that canonical string, gets the +0.4 location bonus on top
\* of its text score and no mismatch penalty.
C28_CanonicalMatchBonus ==
    pc = "scored" =>
        score = TextScore(Lower(title), Lower(description), Lower(query)) + Pts(40)

-----------------------------------------------------------------------------
(* _parse_indeed_html on a page of one card: the title of the listing *)

StudentSummary == <<"Software engineer internship for students. Apply now">>

JobCard ==
    [title |-> "Job", nested_link |-> <<"Job">>, company |-> <<"Acme">>, location |-> <<>>,
     summary |-> StudentSummary]

ShortSpanCard ==
    [title |-> "SDE", nested_span |-> <<"SDE">>, company |-> <<>>, location |-> <<>>,
     summary |-> StudentSummary]

PositionCard ==
    [title |-> "Position", company |-> <<"Acme">>, location |-> <<>>, summary |-> StudentSummary]

InternshipCard ==
    [title |-> "Internship", nested_link |-> <<"Internship">>, company |-> <<"Acme">>,
     location |-> <<>>, summary |-> StudentSummary]

UntitledCard ==
    [title |-> "", company |-> <<"Acme">>, location |-> <<>>, summary |-> StudentSummary]

TitleCards == {AcmeCard, JobCard, ShortSpanCard, PositionCard, InternshipCard, UntitledCard}

InitTitle ==
    /\ scraped \in {[kind |-> "page", cards |-> <<card>>] : card \in TitleCards}
    /\ query \in Queries
    /\ location \in RequestedLocations
    /\ max_results \in 1..2
    /\ pc = "fetched"
    /\ SELENIUM_AVAILABLE = FALSE
    /\ attempts = <<>> /\ loads = 0 /\ yielded = {} /\ internships = <<>> /\ returned = <<>>
    /\ title = "" /\ description = "" /\ job_location = "" /\ score = NotScored /\ prev = NoCall
    /\ DedupIdle /\ DriverIdle /\ LinkIdle
    /\ request = [query |-> "", location |-> "", max_results |-> 0, sources |-> <<>>]
    /\ scraper_exists = TRUE /\ processed = <<>>
    /\ sync = [pc |-> "idle"] /\ stream = [pc |-> "idle"]

\* lines 544-714
ParseIndeedHtml ==
    /\ pc = "fetched"
    /\ internships' = parse_indeed_html(scraped.cards, query, location, max_results * 2)
    /\ pc' = "parsed"
    /\ UNCHANGED <<SELENIUM_AVAILABLE, max_results, attempts, loads, yielded, returned>>
    /\ UNCHANGED <<scorerVars, dedupVars, driverVars, linkVars, harvestVars>>

NextTitle == ParseIndeedHtml

SpecTitle == InitTitle /\ [][NextTitle]_vars

\* the title candidates that are to be escalated
NeedsEscalation(candidate) ==
    \/ candidate = "" \/ Len(candidate) < 5
    \/ Lower(candidate) \in {"intern", "internship", "job", "position"}

\* the first line of the card's text, cut at 100, if the title still needs it
FirstLineIfNeeded(card, t) ==
    IF NeedsEscalation(t) THEN FirstLineOr(SplitOn(FlattenedText(card), ".")[1], t) ELSE t

\* the title after the escalation: a longer nested link text, a longer nested
\* span text, and failing these the first line of the card's text
EscalatedTitle(card) ==
    FirstLineIfNeeded(card,
        LongerOf(NestedText(card, "nested_span"),
                 LongerOf(NestedText(card, "nested_link"), Strip(card.title))))

\* C23: the listing of a card whose title candidate is empty, shorter than 5
\* characters or one of the placeholders intern, internship, job, position
\* carries the escalated title; any other title candidate is used unchanged.
C23_TitleEscalation ==
    (pc = "parsed" /\ internships # <<>>) =>
        \E card \in {scraped.cards[1]} :
            internships[1].title =
                IF NeedsEscalation(Strip(card.title)) THEN EscalatedTitle(card)
                ELSE Strip(card.title)

====
